---- MODULE Spec2Model ----
(***************************************************************************)
(* A model of the capture pipeline of the Maestro nutrition tracker:       *)
(*   - FoodLookupService (src/services/food-lookup-service.ts): barcode    *)
(*     validation, the time-bounded cache, in-flight de-duplication and    *)
(*     the retry loop of performLookup;                                    *)
(*   - useBarcodeDetection, useCamera and useCapture (the React hooks that *)
(*     scan, own the camera and orchestrate the capture flow).             *)
(* Strings are TLA+ strings; a character of s is SubSeq(s, i, i).          *)
(* Times are milliseconds, as in the source.                               *)
(***************************************************************************)
EXTENDS Integers, Sequences, FiniteSets, TLC

VARIABLES
  now,           \* Date.now()
  ticks,         \* how many times the clock has advanced (bounds the model)
  cache,         \* FoodLookupService.cache: barcode -> [product, timestamp]
  requestQueue,  \* FoodLookupService.requestQueue: barcode -> the request in flight
  requests,      \* the performLookup() invocations, named by the call that made them
  calls,         \* the lookupByBarcode() invocations
  lastOk,        \* history: barcode -> the last network success of a caching caller
  vInput,        \* the string given to lookupByBarcode in the validation runs
  assessed,      \* the product given to assessProductQuality and what it returned
  scan,          \* useBarcodeDetection: its state, its refs and its scan loops
  camera,        \* useCamera: its state, its refs and the startCamera() in progress
  capture,       \* useCapture: its state, its refs and its pending timers
  activeStreamId,\* CameraService.activeStreamId ("" for null)
  resources,     \* ResourceManager.resources: id -> [type, resource]
  liveStreams,   \* the MediaStreams whose tracks are running
  manager,       \* the rest of ResourceManager and of what it manages, and its last call
  serviceStarts, \* the CameraService.startCamera() invocations of clients other than useCamera
  modal,         \* CapturePage's pendingProduct / showMealModal and MealSelectionModal's state
  localStorage,  \* the item 'maestro_meals' of the browser's localStorage
  boundary       \* CameraErrorBoundary: its props, its state and what was done to it

lookupVars == <<now, ticks, cache, requestQueue, requests, calls, lastOk, vInput,
                assessed>>
hookVars == <<scan, camera, capture, activeStreamId, resources, liveStreams, manager,
              serviceStarts, modal, localStorage, boundary>>

vars == <<now, ticks, cache, requestQueue, requests, calls, lastOk, vInput, assessed,
          scan, camera, capture, activeStreamId, resources, liveStreams, manager,
          serviceStarts, modal, localStorage, boundary>>

(***************************************************************************)
(* Bounds of the model.                                                    *)
(***************************************************************************)
MaxCalls == 2
MaxTicks == 2
MaxRetriesOpt == 2
MaxLoops == 2
MaxAutoTimers == 2
MaxStreams == 2
MaxAttemptsCounted == 4
MaxHandlers == 1
MaxCommands == 4
MaxDigits == 14
MaxAttemptsOpt == 3
MaxServiceCalls == 2
MaxServings == 10   \* in quarters: 2.5 servings
MaxEntries == 2
MaxRetryCalls == 5
MaxLogEntries == 3

Calls == 1..MaxCalls

(***************************************************************************)
(* Program constants.                                                      *)
(***************************************************************************)
cacheMaxAge == 24 * 60 * 60 * 1000
CacheSweepThreshold == 1000
DefaultTimeoutMs == 5000
BackoffBaseMs == 1000

RECURSIVE Pow2(_)
Pow2(n) == IF n = 0 THEN 1 ELSE 2 * Pow2(n - 1)

(***************************************************************************)
(* validateBarcode (src/lib/food-db.ts)                                    *)
(***************************************************************************)
Digits == {"0", "1", "2", "3", "4", "5", "6", "7", "8", "9"}
\* the characters /[\s-]/ matches, among those the model's strings use
SpaceOrDash == {" ", "-"}

CharAt(s, i) == SubSeq(s, i, i)

RECURSIVE StripSpaceDash(_)
StripSpaceDash(s) ==
  IF Len(s) = 0 THEN ""
  ELSE IF CharAt(s, 1) \in SpaceOrDash
       THEN StripSpaceDash(SubSeq(s, 2, Len(s)))
       ELSE CharAt(s, 1) \o StripSpaceDash(SubSeq(s, 2, Len(s)))

AllDigits(s) == Len(s) > 0 /\ \A i \in 1..Len(s) : CharAt(s, i) \in Digits

ValidLengths == {8, 12, 13}

\* a validation that forgets the length test
MutantValidateBarcode(barcode) == AllDigits(StripSpaceDash(barcode))

validateBarcode(barcode) ==
  LET cleanBarcode == StripSpaceDash(barcode)
  IN  IF Len(cleanBarcode) \notin ValidLengths THEN FALSE
      ELSE IF ~AllDigits(cleanBarcode) THEN FALSE
      ELSE TRUE

(***************************************************************************)
(* Product data and assessProductQuality / enhanceProductData              *)
(***************************************************************************)
NoProduct == [none |-> TRUE]

\* ProductData as lookupBarcode builds it; "" stands for an absent optional field
FullProduct(b) ==
  [name |-> "Coca-Cola Classic", brand |-> "Coca-Cola", barcode |-> b, source |-> "barcode",
   nutrition |-> [calories |-> 42, carbs |-> 106, fat |-> 1, protein |-> 1, fiber |-> 1],
   imageUrl |-> "https://img/cola.jpg", verified |-> TRUE]

PoorProduct(b) ==
  [name |-> "Unknown Product", brand |-> "", barcode |-> b, source |-> "barcode",
   nutrition |-> [calories |-> 120, carbs |-> 0, fat |-> 0, protein |-> 0, fiber |-> 0],
   imageUrl |-> "", verified |-> TRUE]

\* what the product database may answer for barcode b (besides "not found")
ProductsFor(b) == {FullProduct(b), PoorProduct(b)}

\* How the fetch of lookupBarcode can end: the database answers with a product
\* (status 1, with nutriments), with status # 1, or with a product without usable
\* nutriments; or the transport fails: fetch rejects, the response is not ok, or
\* response.json() throws.
TransportFailures ==
  {[kind |-> "fetchRejects"], [kind |-> "httpNotOk"], [kind |-> "jsonThrows"]}

FetchOutcomes(b) ==
  {[kind |-> "product", product |-> p] : p \in ProductsFor(b)}
    \cup {[kind |-> "statusNot1"], [kind |-> "noNutrition"]}
    \cup TransportFailures

\* the value lookupBarcode resolves with: its catch block turns every throw into null
lookupBarcode(fetched) ==
  IF fetched.kind = "product" THEN fetched.product ELSE NoProduct

NutritionFields(n) == <<n.calories, n.carbs, n.fat, n.protein, n.fiber>>

SelectSeqPos(seq) == Cardinality({i \in 1..Len(seq) : seq[i] > 0})

\* a nutrition score that falls as fields are filled in
MutantNutritionScore(completeFields, fields) == ((fields - completeFields) * 40) \div fields

\* (completeFields / 5) * 40 is the integer 8 * completeFields in IEEE doubles
NutritionScore(completeFields, fields) == (completeFields * 40) \div fields

\* the level of a score: >= 80 high, >= 60 medium, else low
QualityLevel(score) ==
  IF score >= 80 THEN "high" ELSE IF score >= 60 THEN "medium" ELSE "low"

\* an assessment that gives the 20 points to every name that is present
MutantAssessProductQuality(product) ==
  LET score == (IF product.name # "" THEN 20 ELSE 0)
               + (IF product.brand # "" THEN 15 ELSE 0)
               + NutritionScore(SelectSeqPos(NutritionFields(product.nutrition)), 5)
               + (IF product.imageUrl # "" THEN 10 ELSE 0)
               + (IF product.verified THEN 15 ELSE 0)
  IN  [score |-> score, level |-> QualityLevel(score), issues |-> <<>>, strengths |-> <<>>]

assessProductQuality(product) ==
  LET hasName == Len(product.name) > 3
      hasBrand == product.brand # ""
      nutritionFields == NutritionFields(product.nutrition)
      completeFields == SelectSeqPos(nutritionFields)
      nutritionScore == NutritionScore(completeFields, Len(nutritionFields))
      hasImage == product.imageUrl # ""
      score == (IF hasName THEN 20 ELSE 0) + (IF hasBrand THEN 15 ELSE 0)
               + nutritionScore + (IF hasImage THEN 10 ELSE 0)
               + (IF product.verified THEN 15 ELSE 0)
      strengths ==
           (IF hasName THEN <<"Product name available">> ELSE <<>>)
        \o (IF hasBrand THEN <<"Brand information available">> ELSE <<>>)
        \o (IF nutritionScore >= 30 THEN <<"Complete nutrition data">>
            ELSE IF nutritionScore >= 20 THEN <<"Most nutrition data available">> ELSE <<>>)
        \o (IF hasImage THEN <<"Product image available">> ELSE <<>>)
        \o (IF product.verified THEN <<"Verified product data">> ELSE <<>>)
      issues ==
           (IF hasName THEN <<>> ELSE <<"Missing or poor product name">>)
        \o (IF hasBrand THEN <<>> ELSE <<"No brand information">>)
        \o (IF nutritionScore >= 30 THEN <<>>
            ELSE IF nutritionScore >= 20 THEN <<"Some nutrition values missing">>
            ELSE <<"Incomplete nutrition data">>)
        \o (IF hasImage THEN <<>> ELSE <<"No product image">>)
        \o (IF product.verified THEN <<>> ELSE <<"Unverified product data">>)
      level == QualityLevel(score)
  IN  [score |-> score, level |-> level, issues |-> issues, strengths |-> strengths]

\* The products assessProductQuality is tried on: a name that is absent, short or
\* long, and every other field absent (zero, for a nutrition field) or present; the
\* calories may also be negative.
QualityNames == {"", "Tea", "Cola"}
QualityValues == {0, 5}
QualityProducts ==
  {[name |-> n, brand |-> b, barcode |-> "049000028911", source |-> "barcode",
    nutrition |-> [calories |-> c, carbs |-> cb, fat |-> f, protein |-> pr, fiber |-> fi],
    imageUrl |-> img, verified |-> v] :
     n \in QualityNames, b \in {"", "Coca-Cola"}, c \in QualityValues \cup {-1},
     cb \in QualityValues, f \in QualityValues, pr \in QualityValues,
     fi \in QualityValues, img \in {"", "https://img/cola.jpg"}, v \in BOOLEAN}

NoAssessment == [product |-> NoProduct, results |-> {}]

\* QUALITY_TEST_CASES: the product data of each entry with its expectedScore; the
\* nutrition values are in tenths (carbs 10.6 is 106), a field the entry leaves
\* out (brand, imageUrl) is ""
QUALITY_TEST_CASES ==
  [high_quality |->
     [product |->
        [name |-> "Coca-Cola Classic", brand |-> "The Coca-Cola Company",
         barcode |-> "049000028911", source |-> "barcode",
         nutrition |-> [calories |-> 420, carbs |-> 106, fat |-> 0, protein |-> 0, fiber |-> 0],
         imageUrl |-> "https://example.com/coke.jpg", verified |-> TRUE],
      expectedScore |-> 100],
   medium_quality |->
     [product |->
        [name |-> "Store Brand Soda", brand |-> "Generic Brand",
         barcode |-> "012345678901", source |-> "barcode",
         nutrition |-> [calories |-> 400, carbs |-> 100, fat |-> 0, protein |-> 0, fiber |-> 0],
         imageUrl |-> "", verified |-> FALSE],
      expectedScore |-> 70],
   low_quality |->
     [product |->
        [name |-> "Unknown Product", brand |-> "",
         barcode |-> "999999999999", source |-> "barcode",
         nutrition |-> [calories |-> 0, carbs |-> 0, fat |-> 0, protein |-> 0, fiber |-> 0],
         imageUrl |-> "", verified |-> FALSE],
      expectedScore |-> 20]]

TestCaseNames == DOMAIN QUALITY_TEST_CASES
TestCaseProducts == {QUALITY_TEST_CASES[k].product : k \in TestCaseNames}

\* Math.round((score / 100) * factor * 100) in IEEE doubles: the product falls just
\* below x.5 for these scores (28.499999999999996, 66.49999999999999), so it rounds down
HalfLostBarcode == {30, 70}

Confidence(score, source) ==
  IF source = "barcode"
    THEN IF score \in HalfLostBarcode THEN (score * 95) \div 100
         ELSE (score * 95 + 50) \div 100
  ELSE IF source = "search" THEN (score * 80 + 50) \div 100
  ELSE score

enhanceProductData(product, cached, source) ==
  LET quality == assessProductQuality(product)
  IN  [name |-> product.name, brand |-> product.brand, barcode |-> product.barcode,
       nutrition |-> product.nutrition, imageUrl |-> product.imageUrl,
       verified |-> product.verified, quality |-> quality,
       confidence |-> Confidence(quality.score, source),
       cached |-> cached, source |-> source]

(***************************************************************************)
(* LookupResult values                                                     *)
(***************************************************************************)
InvalidSuggestions == <<"Try scanning again", "Enter product manually">>
NotFoundSuggestions ==
  <<"Try scanning again in better lighting", "Check if barcode is complete and undamaged",
    "Search for product by name instead", "Enter nutrition information manually">>
QualitySuggestions ==
  <<"Use nutrition label scanning instead", "Enter nutrition information manually">>
NetworkSuggestions ==
  <<"Check your internet connection", "Try again in a moment",
    "Use nutrition label scanning instead", "Enter product information manually">>

Failure(error, suggestions) ==
  [success |-> FALSE, product |-> NoProduct, error |-> error, fallbackSuggestions |-> suggestions]
Success(product) ==
  [success |-> TRUE, product |-> product, error |-> "", fallbackSuggestions |-> <<>>]

InvalidFormatResult == Failure("Invalid barcode format", InvalidSuggestions)
NotFoundResult == Failure("Product not found in database", NotFoundSuggestions)
QualityTooLowResult == Failure("Product data quality too low", QualitySuggestions)
NetworkFailureResult(message) == Failure(message, NetworkSuggestions)
NoResult == Failure("(pending)", <<>>)

(***************************************************************************)
(* FoodLookupService state                                                 *)
(***************************************************************************)
\* the defaults of lookupByBarcode's options
DefaultOptions ==
  [enableCache |-> TRUE, maxRetries |-> 2, timeoutMs |-> DefaultTimeoutMs,
   requireHighQuality |-> FALSE]

\* the options the model's clients use: the defaults, changed in one option
RetryOptions == {[DefaultOptions EXCEPT !.maxRetries = n] : n \in 0..MaxRetriesOpt}
CacheOptions == {[DefaultOptions EXCEPT !.enableCache = e] : e \in BOOLEAN}
QualityOptions == {[DefaultOptions EXCEPT !.requireHighQuality = q] : q \in BOOLEAN}
LookupOptions == RetryOptions \cup CacheOptions \cup QualityOptions

\* the options useCapture.handleBarcodeDetected passes
CaptureLookupOptions ==
  [enableCache |-> TRUE, maxRetries |-> 2, timeoutMs |-> DefaultTimeoutMs,
   requireHighQuality |-> FALSE]

NoOptions ==
  [enableCache |-> FALSE, maxRetries |-> 0, timeoutMs |-> 0, requireHighQuality |-> FALSE]

\* a lookupByBarcode() invocation.  role: how it obtained its result
\*   ("invalid" | "cachehit" | "joiner" | "creator");  req: the request it awaits;
\*   attempts / delays: the network invocations and backoff waits of that request
IdleCall ==
  [state |-> "idle", barcode |-> "", opts |-> NoOptions, role |-> "none", req |-> 0,
   result |-> NoResult, attempts |-> 0, delays |-> <<>>]

\* a performLookup() invocation.  state: "net" while lookupBarcode races the timeout
\* timer (armed with timerMs), "backoff" while the retry delay runs;  stale: the
\* lookupBarcode calls of its timed-out attempts that have not settled (nothing
\* aborts them; what they resolve with is dropped)
NoRequest ==
  [state |-> "none", barcode |-> "", maxRetries |-> 0, timeoutMs |-> 0,
   requireHighQuality |-> FALSE, attempt |-> 0, timerMs |-> 0, invocations |-> 0,
   delays |-> <<>>, stale |-> 0]

RemoveKey(f, k) == [x \in DOMAIN f \ {k} |-> f[x]]

InitLookup ==
  /\ now = 0
  /\ ticks = 0
  /\ cache = << >>
  /\ requestQueue = << >>
  /\ requests = [c \in Calls |-> NoRequest]
  /\ calls = [c \in Calls |-> IdleCall]
  /\ lastOk = << >>

(***************************************************************************)
(* The cache                                                               *)
(***************************************************************************)
IsExpired(entry) == now - entry.timestamp > cacheMaxAge

\* getCachedProduct: the product returned (NoProduct for null) ...
getCachedProduct(barcode) ==
  IF barcode \notin DOMAIN cache THEN NoProduct
  ELSE IF IsExpired(cache[barcode]) THEN NoProduct
  ELSE cache[barcode].product

\* ... and the cache it leaves (an expired entry is deleted)
CacheAfterGet(barcode) ==
  IF barcode \in DOMAIN cache /\ IsExpired(cache[barcode])
    THEN RemoveKey(cache, barcode)
    ELSE cache

cleanupCache(c) ==
  LET cutoffTime == now - cacheMaxAge
  IN  [k \in {x \in DOMAIN c : ~(c[x].timestamp < cutoffTime)} |-> c[k]]

cacheProduct(c, barcode, product) ==
  LET c1 == (barcode :> [product |-> product, timestamp |-> now]) @@ c
  IN  IF Cardinality(DOMAIN c1) > CacheSweepThreshold THEN cleanupCache(c1) ELSE c1

clearCache ==
  /\ cache # << >>
  /\ cache' = << >>
  /\ lastOk' = << >>
  /\ UNCHANGED <<now, ticks, requestQueue, requests, calls, vInput, assessed>>
  /\ UNCHANGED hookVars

(***************************************************************************)
(* lookupByBarcode, up to its first await                                  *)
(***************************************************************************)
StartedCall(c, barcode, o, role, req) ==
  [IdleCall EXCEPT !.state = "waiting", !.barcode = barcode, !.opts = o, !.role = role,
                   !.req = req]

NewRequest(barcode, o) ==
  [state |-> "net", barcode |-> barcode, maxRetries |-> o.maxRetries,
   timeoutMs |-> o.timeoutMs, requireHighQuality |-> o.requireHighQuality,
   attempt |-> 0, timerMs |-> o.timeoutMs, invocations |-> 1, delays |-> <<>>,
   stale |-> 0]

\* const existingRequest = this.requestQueue.get(barcode); if (existingRequest) ...
MutantNoExistingRequest(barcode) == FALSE

HasExistingRequest(barcode) == barcode \in DOMAIN requestQueue

lookupByBarcode(c, barcode, o) ==
  /\ calls[c].state = "idle"
  /\ IF ~validateBarcode(barcode)
       THEN /\ calls' = [calls EXCEPT ![c] =
                 [StartedCall(c, barcode, o, "invalid", 0) EXCEPT
                    !.state = "done", !.result = InvalidFormatResult]]
            /\ UNCHANGED <<cache, requestQueue, requests, lastOk>>
     ELSE IF o.enableCache /\ getCachedProduct(barcode) # NoProduct
       THEN LET result == Success([getCachedProduct(barcode) EXCEPT !.cached = TRUE])
            IN  /\ calls' = [calls EXCEPT ![c] =
                     [StartedCall(c, barcode, o, "cachehit", 0) EXCEPT
                        !.state = "done", !.result = result]]
                /\ UNCHANGED <<cache, requestQueue, requests, lastOk>>
     ELSE /\ cache' = IF o.enableCache THEN CacheAfterGet(barcode) ELSE cache
          /\ lastOk' = lastOk
          /\ IF HasExistingRequest(barcode)
               THEN \* "Returning existing request"
                    /\ calls' = [calls EXCEPT ![c] =
                         StartedCall(c, barcode, o, "joiner", requestQueue[barcode])]
                    /\ UNCHANGED <<requestQueue, requests>>
               ELSE \* performLookup runs up to its first await: lookupBarcode is called
                    /\ requests' = [requests EXCEPT ![c] = NewRequest(barcode, o)]
                    /\ requestQueue' = (barcode :> c) @@ requestQueue
                    /\ calls' = [calls EXCEPT ![c] =
                         StartedCall(c, barcode, o, "creator", c)]
  /\ UNCHANGED <<now, ticks, vInput, assessed>>

(***************************************************************************)
(* performLookup settles: the creator's continuation (cache write, queue   *)
(* delete) runs, and every caller awaiting the promise gets the result     *)
(***************************************************************************)
\* an entry that stays in the map when the lookup has failed
MutantFinallyDelete(queue, barcode, result) ==
  IF result.success THEN RemoveKey(queue, barcode) ELSE queue

\* finally { this.requestQueue.delete(barcode) }
FinallyDelete(queue, barcode, result) == RemoveKey(queue, barcode)

\* a creator that caches what it got whatever its enableCache
MutantCachesResult(result, enableCache) == result.success /\ result.product # NoProduct

\* if (result.success && result.product && enableCache)
CachesResult(result, enableCache) ==
  result.success /\ result.product # NoProduct /\ enableCache

Settle(r, result, invocations, delays) ==
  LET barcode == requests[r].barcode
      enableCache == calls[r].opts.enableCache
      waiters == {c \in Calls : calls[c].state = "waiting" /\ calls[c].req = r}
      anyCachingOk == \E c \in waiters : calls[c].opts.enableCache
  IN  /\ cache' = IF CachesResult(result, enableCache)
                    THEN cacheProduct(cache, barcode, result.product)
                    ELSE cache
      /\ requestQueue' = FinallyDelete(requestQueue, barcode, result)
      /\ requests' = [requests EXCEPT ![r] = NoRequest]
      /\ calls' = [c \in Calls |->
                     IF c \in waiters
                       THEN [calls[c] EXCEPT !.state = "done", !.result = result,
                                             !.attempts = invocations, !.delays = delays]
                       ELSE calls[c]]
      /\ lastOk' = IF result.success /\ anyCachingOk
                     THEN (barcode :> [product |-> result.product, time |-> now]) @@ lastOk
                     ELSE lastOk

\* what performLookup returns for the value lookupBarcode resolved with
LookupOutcome(r, product) ==
  IF product = NoProduct THEN NotFoundResult
  ELSE LET enhancedProduct == enhanceProductData(product, FALSE, "barcode")
       IN  IF requests[r].requireHighQuality /\ enhancedProduct.quality.level = "low"
             THEN QualityTooLowResult
             ELSE Success(enhancedProduct)

MutantBackoffDelay(attempt) == Pow2(attempt + 1) * BackoffBaseMs

BackoffDelay(attempt) == Pow2(attempt) * BackoffBaseMs

\* the timeout timer wins the race: the catch block
AttemptTimesOut(r) ==
  /\ requests[r].state = "net"
  /\ IF requests[r].attempt < requests[r].maxRetries
       THEN /\ requests' = [requests EXCEPT ![r].state = "backoff",
                                            ![r].timerMs = BackoffDelay(requests[r].attempt),
                                            ![r].delays = Append(requests[r].delays,
                                                            BackoffDelay(requests[r].attempt)),
                                            ![r].stale = requests[r].stale + 1]
            /\ UNCHANGED <<cache, requestQueue, calls, lastOk>>
       ELSE Settle(r, NetworkFailureResult("Request timeout"),
                   requests[r].invocations, requests[r].delays)
  /\ UNCHANGED <<now, ticks, vInput, assessed>>
  /\ UNCHANGED hookVars

\* a null from lookupBarcode thrown like an error instead of returned as not found
MutantNetworkResponds(r, product) ==
  IF product = NoProduct
    THEN AttemptTimesOut(r)
    ELSE /\ requests[r].state = "net"
         /\ Settle(r, LookupOutcome(r, product), requests[r].invocations,
                   requests[r].delays)
         /\ UNCHANGED <<now, ticks, vInput, assessed>>
         /\ UNCHANGED hookVars

\* lookupBarcode wins the race
NetworkResponds(r, product) ==
  /\ requests[r].state = "net"
  /\ Settle(r, LookupOutcome(r, product), requests[r].invocations, requests[r].delays)
  /\ UNCHANGED <<now, ticks, vInput, assessed>>
  /\ UNCHANGED hookVars

\* the backoff delay is over: the next iteration of the loop calls lookupBarcode
BackoffElapses(r) ==
  /\ requests[r].state = "backoff"
  /\ requests' = [requests EXCEPT ![r].state = "net",
                                  ![r].attempt = requests[r].attempt + 1,
                                  ![r].timerMs = requests[r].timeoutMs,
                                  ![r].invocations = requests[r].invocations + 1]
  /\ UNCHANGED <<now, ticks, cache, requestQueue, calls, lastOk, vInput, assessed>>
  /\ UNCHANGED hookVars

\* the caller has taken its result
CallReturns(c) ==
  /\ calls[c].state = "done"
  /\ calls' = [calls EXCEPT ![c] = IdleCall]
  /\ UNCHANGED <<now, ticks, cache, requestQueue, requests, lastOk, vInput, assessed>>
  /\ UNCHANGED hookVars

\* time passes
TickSteps == {1, cacheMaxAge}

Tick(d) ==
  /\ ticks < MaxTicks
  /\ ticks' = ticks + 1
  /\ now' = now + d
  /\ UNCHANGED <<cache, requestQueue, requests, calls, lastOk, vInput, assessed>>
  /\ UNCHANGED hookVars

(***************************************************************************)
(* The lookup service under arbitrary clients                              *)
(***************************************************************************)
PoolLookup == {"049000028911", "12345678", "12345"}

\* A settled promise's continuations run as microtasks, before the event loop takes
\* its next task: no timer, network response or client event comes in between.
NoContinuationPending == \A c \in Calls : calls[c].state # "done"

ClientCallsFrom(pool, options) ==
  /\ NoContinuationPending
  /\ \E c \in Calls, b \in pool, o \in options : lookupByBarcode(c, b, o)
  /\ UNCHANGED hookVars
ClientCalls == ClientCallsFrom(PoolLookup, LookupOptions)
NetworkAnswers ==
  /\ NoContinuationPending
  /\ \E r \in Calls :
       \E f \in FetchOutcomes(requests[r].barcode) : NetworkResponds(r, lookupBarcode(f))
TimerFires == NoContinuationPending /\ \E r \in Calls : AttemptTimesOut(r)
RetryStarts == NoContinuationPending /\ \E r \in Calls : BackoffElapses(r)
ClientReturns == \E c \in Calls : CallReturns(c)
ClockAdvances == NoContinuationPending /\ \E d \in TickSteps : Tick(d)
ClientClearsCache == NoContinuationPending /\ clearCache

NextLookup ==
  \/ ClientCalls
  \/ NetworkAnswers
  \/ TimerFires
  \/ RetryStarts
  \/ ClientReturns
  \/ ClientClearsCache


(***************************************************************************)
(* The lookup service and its cache as time passes                         *)
(***************************************************************************)
PoolCache == {"049000028911"}

ClientCallsCache == ClientCallsFrom(PoolCache, CacheOptions)

NextCache ==
  \/ ClientCallsCache
  \/ NetworkAnswers
  \/ TimerFires
  \/ RetryStarts
  \/ ClientReturns
  \/ ClockAdvances
  \/ ClientClearsCache


(***************************************************************************)
(* ResourceManager                                                         *)
(***************************************************************************)
registerMediaStream(res, stream, id) ==
  (id :> [type |-> "mediaStream", resource |-> stream]) @@ res

registerScanner(res, id) ==
  (id :> [type |-> "scanner", resource |-> 0]) @@ res

\* the streams whose tracks cleanup(resourceId) stops
StreamsStoppedBy(res, resourceId) ==
  IF resourceId \in DOMAIN res /\ res[resourceId].type = "mediaStream"
    THEN {res[resourceId].resource}
    ELSE {}

\* the registry cleanup(resourceId) leaves
cleanup(res, resourceId) == RemoveKey(res, resourceId)

registerTimeout(res, id) ==
  (id :> [type |-> "timeout", resource |-> 0]) @@ res

ResourceTypes == {"mediaStream", "scanner", "timeout"}

EntriesOfType(res, type) == {id \in DOMAIN res : res[id].type = type}

\* What the manager manages, besides the registry and the running streams: the scanners
\* that have been reset and the timeouts still pending (both named by their resource
\* id); whether the page-lifecycle handlers are installed; and its last call: the
\* operation, its argument, what it returned, whether it threw to its caller, the ids
\* whose release action failed in it, the managed state before it, and the call that
\* preceded it.
NoManaged == [resources |-> << >>, live |-> {}, resets |-> {}, pending |-> {}]

InitManager ==
  [isCleanupScheduled |-> FALSE, resets |-> {}, pending |-> {},
   op |-> "none", arg |-> "", found |-> FALSE, count |-> 0,
   threw |-> FALSE, failed |-> {}, before |-> NoManaged,
   prev |-> [op |-> "none", arg |-> "", found |-> FALSE, count |-> 0]]

Managed == [resources |-> resources, live |-> liveStreams,
            resets |-> manager.resets, pending |-> manager.pending]

\* scheduleCleanupOnUnload: the page-lifecycle handlers are installed when the first
\* stream or scanner is registered (a step that took the registry from before to after)
CleanupScheduled(mgr, before, after) ==
  IF \E id \in DOMAIN after :
       /\ after[id].type \in {"mediaStream", "scanner"}
       /\ (id \notin DOMAIN before \/ before[id] # after[id])
    THEN [mgr EXCEPT !.isCleanupScheduled = TRUE]
    ELSE mgr

\* The cleanup closure of a managed resource (registerMediaStream, registerScanner,
\* registerTimeout): its try block does the release, its catch block logs the failure.
ReleaseClosure(st, id, fails) ==
  LET entry == st.resources[id]
  IN  IF fails THEN st
      ELSE IF entry.type = "mediaStream" THEN [st EXCEPT !.live = @ \ {entry.resource}]
      ELSE IF entry.type = "scanner" THEN [st EXCEPT !.resets = @ \cup {id}]
      ELSE [st EXCEPT !.pending = @ \ {id}]

\* a closure without its own try/catch would pass the failure on to cleanup()
MutantClosureRethrows(fails) == fails

\* whether the closure throws to cleanup(): never, it catches what its release throws
ClosureRethrows(fails) == FALSE

\* cleanup() without its test of the entry
MutantCleanupResource(st, resourceId, fails) ==
  [st |-> [st EXCEPT !.resources = RemoveKey(@, resourceId)],
   found |-> TRUE, threw |-> FALSE]

\* ResourceManager.cleanup(resourceId), the release action failing or not:
\* the managed state it leaves, what it returns, and whether it throws to its caller
cleanupResource(st, resourceId, fails) ==
  IF resourceId \notin DOMAIN st.resources
    THEN [st |-> st, found |-> FALSE, threw |-> FALSE]
  ELSE IF ClosureRethrows(fails)
    THEN \* the catch block of cleanup(): the entry stays
         [st |-> ReleaseClosure(st, resourceId, fails), found |-> FALSE, threw |-> FALSE]
  ELSE [st |-> [ReleaseClosure(st, resourceId, fails) EXCEPT
                  !.resources = RemoveKey(@, resourceId)],
        found |-> TRUE, threw |-> FALSE]

\* for (const [id, resource] of this.resources) ... this.cleanup(id): the entries are
\* visited one by one; acc.count counts the calls that returned true
RECURSIVE CleanupEach(_, _, _)
CleanupEach(acc, ids, failing) ==
  IF ids = {} THEN acc
  ELSE LET id == CHOOSE x \in ids : TRUE
           one == cleanupResource(acc.st, id, id \in failing)
       IN  CleanupEach([st |-> one.st,
                        count |-> acc.count + (IF one.found THEN 1 ELSE 0),
                        threw |-> acc.threw \/ one.threw],
                       ids \ {id}, failing)

\* cleanupByType without its test of the type
MutantCleanupByType(st, type, failing) ==
  CleanupEach([st |-> st, count |-> 0, threw |-> FALSE], DOMAIN st.resources, failing)

cleanupByType(st, type, failing) ==
  CleanupEach([st |-> st, count |-> 0, threw |-> FALSE],
              {id \in DOMAIN st.resources : st.resources[id].type = type}, failing)

cleanupAll(st, failing) ==
  LET totalResources == Cardinality(DOMAIN st.resources)
  IN  [CleanupEach([st |-> st, count |-> 0, threw |-> FALSE], DOMAIN st.resources, failing)
         EXCEPT !.count = totalResources]

\* the manager after a call that left the managed state st
ManagerAfter(op, arg, st, found, count, threw, failing, scheduled) ==
  [isCleanupScheduled |-> manager.isCleanupScheduled \/ scheduled,
   resets |-> st.resets, pending |-> st.pending,
   op |-> op, arg |-> arg,
   found |-> found, count |-> count, threw |-> threw,
   failed |-> failing, before |-> Managed,
   prev |-> [op |-> manager.op, arg |-> manager.arg,
             found |-> manager.found, count |-> manager.count]]

\* the manager on its own: a call and what it leaves
ManagerCall(op, arg, st, found, count, threw, failing, scheduled) ==
  /\ resources' = st.resources
  /\ liveStreams' = st.live
  /\ manager' = ManagerAfter(op, arg, st, found, count, threw, failing, scheduled)
  /\ UNCHANGED <<scan, camera, capture, activeStreamId, serviceStarts, modal, localStorage, boundary>>
  /\ UNCHANGED lookupVars

StreamIds == {"primary_camera", "stream_1"}
ScannerIds == {"primary_barcode_scanner"}
TimeoutIds == {"timeout_1"}
ManagerIds == StreamIds \cup ScannerIds \cup TimeoutIds \cup {"unknown"}

\* a client acquires a stream and registers it
ClientRegistersStream ==
  \E s \in 1..MaxStreams, id \in StreamIds :
    /\ s \notin liveStreams
    /\ ManagerCall("register", id,
                   [Managed EXCEPT !.resources = registerMediaStream(resources, s, id),
                                   !.live = @ \cup {s}],
                   FALSE, 0, FALSE, {}, TRUE)

\* a client creates a reader and registers it
ClientRegistersScanner ==
  \E id \in ScannerIds :
    ManagerCall("register", id,
                [Managed EXCEPT !.resources = registerScanner(resources, id),
                                !.resets = @ \ {id}],
                FALSE, 0, FALSE, {}, TRUE)

\* a client sets a timeout and registers it
ClientRegistersTimeout ==
  \E id \in TimeoutIds :
    ManagerCall("register", id,
                [Managed EXCEPT !.resources = registerTimeout(resources, id),
                                !.pending = @ \cup {id}],
                FALSE, 0, FALSE, {}, FALSE)

ClientCleansUp ==
  \E id \in ManagerIds, fails \in BOOLEAN :
    /\ fails => id \in DOMAIN resources
    /\ LET r == cleanupResource(Managed, id, fails)
       IN  ManagerCall("cleanup", id, r.st, r.found, 0, r.threw,
                       IF fails THEN {id} ELSE {}, FALSE)

ClientCleansUpByType ==
  \E type \in ResourceTypes, failing \in SUBSET (DOMAIN resources) :
    /\ \A id \in failing : resources[id].type = type
    /\ LET r == cleanupByType(Managed, type, failing)
       IN  ManagerCall("cleanupByType", type, r.st, FALSE, r.count, r.threw, failing, FALSE)

ClientCleansUpAll ==
  \E failing \in SUBSET (DOMAIN resources) :
    LET r == cleanupAll(Managed, failing)
    IN  ManagerCall("cleanupAll", "", r.st, FALSE, r.count, r.threw, failing, FALSE)

\* handleVisibilityChange with document.hidden
PageHidden ==
  /\ manager.isCleanupScheduled
  /\ \E failing \in SUBSET (DOMAIN resources) :
       /\ \A id \in failing : resources[id].type = "mediaStream"
       /\ LET r == cleanupByType(Managed, "mediaStream", failing)
          IN  ManagerCall("pageHidden", "mediaStream", r.st, FALSE, r.count, r.threw,
                          failing, FALSE)

NextResources ==
  \/ ClientRegistersStream
  \/ ClientRegistersScanner
  \/ ClientRegistersTimeout
  \/ ClientCleansUp
  \/ ClientCleansUpByType
  \/ ClientCleansUpAll
  \/ PageHidden

(***************************************************************************)
(* useBarcodeDetection                                                     *)
(***************************************************************************)
Loops == 1..MaxLoops
CaptureMaxScanAttempts == 5
ScannerId == "primary_barcode_scanner"

\* One continuousScan closure: its position, the state.scanCount its render captured,
\* whether reader.reset() was called during its decode, and how many decode attempts
\* it has made (counted up to the detector's countedAttempts).
NoLoop == [phase |-> "none", scanCount |-> 0, reset |-> FALSE, attempts |-> 0]

InitScan(maxScanAttempts, countedAttempts) ==
  [isScanning |-> FALSE, isInitialized |-> FALSE, result |-> "", error |-> "",
   scanCount |-> 0, readerRef |-> FALSE, continuousScanRef |-> FALSE,
   scanTimeoutRef |-> 0, maxScanAttempts |-> maxScanAttempts,
   loops |-> [i \in Loops |-> NoLoop],
   countedAttempts |-> countedAttempts]

HasFreeLoop(sc) == \E i \in Loops : sc.loops[i].phase = "none"
FreeLoop(sc) == CHOOSE i \in Loops :
                  /\ sc.loops[i].phase = "none"
                  /\ \A j \in Loops : sc.loops[j].phase = "none" => i <= j

initializeReader(sc) ==
  IF sc.readerRef THEN sc ELSE [sc EXCEPT !.readerRef = TRUE, !.isInitialized = TRUE]

\* if (scanTimeoutRef.current) { clearTimeout(...); scanTimeoutRef.current = null }
ClearScanTimeout(sc) ==
  IF sc.scanTimeoutRef = 0 THEN sc
  ELSE [sc EXCEPT !.scanTimeoutRef = 0,
                  !.loops[sc.scanTimeoutRef] = IF @.phase = "sleeping" THEN NoLoop ELSE @]

\* reader.reset() while decodes may be in progress
ReaderReset(sc) ==
  [sc EXCEPT !.loops = [i \in Loops |->
     IF sc.loops[i].phase = "decoding"
       THEN [sc.loops[i] EXCEPT !.reset = TRUE]
       ELSE sc.loops[i]]]

stopDetection(sc) ==
  LET afterReset == IF sc.readerRef THEN ReaderReset(sc) ELSE sc
  IN  [ClearScanTimeout(afterReset) EXCEPT !.isScanning = FALSE]

stopContinuousScanning(sc) ==
  stopDetection(ClearScanTimeout([sc EXCEPT !.continuousScanRef = FALSE]))

resetResult(sc) == [sc EXCEPT !.result = "", !.error = "", !.scanCount = 0]

Min(a, b) == IF a < b THEN a ELSE b

\* one run of the continuousScan closure i, up to its await of detectBarcodeOnce
continuousScan(sc, i, scanCount, attempts) ==
  IF ~sc.continuousScanRef
    THEN [sc EXCEPT !.loops[i] = NoLoop]
  ELSE IF sc.maxScanAttempts > 0 /\ scanCount >= sc.maxScanAttempts
    THEN [stopContinuousScanning(sc) EXCEPT !.loops[i] = NoLoop]
  ELSE [initializeReader(sc) EXCEPT
          !.isScanning = TRUE, !.error = "",
          !.loops[i] = [phase |-> "decoding", scanCount |-> scanCount, reset |-> FALSE,
                        attempts |-> Min(attempts + 1, sc.countedAttempts)]]

\* startContinuousScanning of the render whose state.scanCount was scanCount
startContinuousScanning(sc, scanCount) ==
  continuousScan([sc EXCEPT !.continuousScanRef = TRUE], FreeLoop(sc), scanCount, 0)

\* the registry after a handler that took the detector from before to after
ScannerRegistered(res, before, after) ==
  IF ~before.readerRef /\ after.readerRef THEN registerScanner(res, ScannerId) ELSE res

\* decodeOnceFromVideoDevice resolved with a code: detectBarcodeOnce returns it and
\* continuousScan stops the scanning. Whether a decode in progress still resolves after
\* reader.reset() is the library's affair: either outcome is allowed.
ScanAfterDetected(sc, i, text) ==
  LET detected == [sc EXCEPT !.result = text, !.isScanning = FALSE,
                             !.scanCount = sc.loops[i].scanCount + 1]
  IN  [stopContinuousScanning(detected) EXCEPT !.loops[i] = NoLoop]

\* decodeOnceFromVideoDevice rejected: error is "" for a NotFoundException
ScanAfterRejected(sc, i, error) ==
  LET failed == IF error = "" THEN [sc EXCEPT !.isScanning = FALSE]
                ELSE [sc EXCEPT !.isScanning = FALSE, !.error = error]
  IN  IF failed.continuousScanRef
        THEN [failed EXCEPT !.scanTimeoutRef = i, !.loops[i].phase = "sleeping",
                            !.loops[i].reset = FALSE]
        ELSE [failed EXCEPT !.loops[i] = NoLoop]

DetectTexts == {"049000028911", "12345"}
DecodeErrors == {"Video stream error"}

\* the detector on its own, its callbacks doing nothing
ScanOnly(next) ==
  /\ scan' = next
  /\ resources' = ScannerRegistered(resources, scan, next)
  /\ manager' = CleanupScheduled(manager, resources, resources')
  /\ UNCHANGED <<camera, capture, activeStreamId, liveStreams, serviceStarts, modal, localStorage, boundary>>
  /\ UNCHANGED lookupVars

ClientStartsScanning ==
  /\ HasFreeLoop(scan)
  /\ ScanOnly(startContinuousScanning(scan, scan.scanCount))

ClientStopsScanning == ScanOnly(stopContinuousScanning(scan))

ClientResetsResult == ScanOnly(resetResult(scan))

DecodeDetects ==
  \E i \in Loops, text \in DetectTexts :
    /\ scan.loops[i].phase = "decoding"
    /\ ScanOnly(ScanAfterDetected(scan, i, text))

DecodeFindsNothing ==
  \E i \in Loops :
    /\ scan.loops[i].phase = "decoding"
    /\ ScanOnly(ScanAfterRejected(scan, i, ""))

DecodeFails ==
  \E i \in Loops, e \in DecodeErrors :
    /\ scan.loops[i].phase = "decoding"
    /\ ScanOnly(ScanAfterRejected(scan, i, e))

NextScanTimerFires ==
  \E i \in Loops :
    /\ scan.loops[i].phase = "sleeping"
    /\ ScanOnly(continuousScan(scan, i, scan.loops[i].scanCount, scan.loops[i].attempts))

(***************************************************************************)
(* useCamera and CameraService                                             *)
(***************************************************************************)
Streams == 1..MaxStreams
\* the names getUserMedia rejects with; createCameraError has no case for the last
CameraErrorNames ==
  {"NotAllowedError", "NotFoundError", "NotReadableError", "OverconstrainedError",
   "AbortError", "SecurityError"}

\* the kinds of CameraError: permission denied, not found, busy, constraint
\* unsupported, interrupted, unknown
CameraErrorKinds ==
  {"NotAllowedError", "NotFoundError", "NotReadableError", "OverconstrainedError",
   "AbortError", "UnknownError"}

CameraErrorKind(name) ==
  IF name \in CameraErrorKinds \ {"UnknownError"} THEN name ELSE "UnknownError"

CameraErrorMessage(name) ==
  CASE name = "NotAllowedError" ->
         "Camera permission denied. Please enable camera access in your browser settings."
    [] name = "NotFoundError" -> "No camera found on this device."
    [] name = "NotReadableError" -> "Camera is being used by another application."
    [] name = "OverconstrainedError" -> "Camera does not support required features."
    [] name = "AbortError" -> "Camera access was interrupted."
    [] OTHER -> "An unexpected camera error occurred."

FallbackAvailable(name) == name # "NotReadableError"

\* the error handed on as it came from the platform
MutantCreateCameraError(name) ==
  [name |-> name, message |-> CameraErrorMessage(name),
   fallbackAvailable |-> FallbackAvailable(name)]

createCameraError(name) ==
  [name |-> CameraErrorKind(name), message |-> CameraErrorMessage(name),
   fallbackAvailable |-> FallbackAvailable(name)]

\* What the callbacks of one render see of the state: the closure of a handler keeps
\* the values of the render that created it.
NoSnapshot == [complete |-> FALSE, hasResult |-> FALSE, scanCount |-> 0, camActive |-> FALSE]

Snapshot ==
  [complete |-> capture.autoDetectionComplete,
   hasResult |-> capture.lookupResult # NoResult,
   scanCount |-> scan.scanCount,
   camActive |-> camera.isActive]

NoOp == [phase |-> "none", stream |-> 0, snap |-> NoSnapshot]

\* a call of restartCamera under way: waiting for its 100 ms ("delay") or for the
\* startCamera it awaits ("starting"), with the render whose callbacks it holds
NoRestart == [phase |-> "none", snap |-> NoSnapshot]
\* the startCamera a restartCamera awaits has returned: restartCamera returns too
RestartSettled(cam) == IF cam.restart.phase = "starting" THEN NoRestart ELSE cam.restart

InitCamera ==
  [stream |-> 0, isActive |-> FALSE, isLoading |-> FALSE, error |-> "",
   hasPermission |-> "null", streamRef |-> 0, isStartingRef |-> FALSE, op |-> NoOp,
   restart |-> NoRestart]

\* a MediaStream object nothing refers to any more stands for a new one
StreamsInUse ==
  liveStreams \cup {camera.stream, camera.streamRef, camera.op.stream}
              \cup {resources[id].resource : id \in DOMAIN resources}
              \cup {serviceStarts[k].stream : k \in DOMAIN serviceStarts}
HasFreshStream == \E s \in Streams : s \notin StreamsInUse
FreshStream == CHOOSE s \in Streams : s \notin StreamsInUse /\
                 \A t \in Streams : t \notin StreamsInUse => s <= t

\* CameraService.stopCamera
ServiceStopResources ==
  IF activeStreamId = "" THEN resources ELSE cleanup(resources, activeStreamId)
ServiceStopLive ==
  IF activeStreamId = "" THEN liveStreams
  ELSE liveStreams \ StreamsStoppedBy(resources, activeStreamId)

\* CameraService.startCamera() as its callers see it: an invocation waits for
\* getUserMedia with the optimal constraints, then with the minimal ones, and ends
\* with the stream it resolved with or the error it rejected with ("" for none).
ServiceCalls == 1..MaxServiceCalls
NoServiceStart == [phase |-> "none", stream |-> 0, error |-> ""]

ServiceStep(nextStarts, nextActiveStreamId, nextResources, nextLive) ==
  /\ serviceStarts' = nextStarts
  /\ activeStreamId' = nextActiveStreamId
  /\ resources' = nextResources
  /\ liveStreams' = nextLive
  /\ manager' = CleanupScheduled(manager, resources, resources')
  /\ UNCHANGED <<scan, camera, capture, modal, localStorage, boundary>>
  /\ UNCHANGED lookupVars

\* startCamera() up to its await of getUserMedia: "Stop any existing camera first"
ClientStartsCamera ==
  \E k \in ServiceCalls :
    /\ serviceStarts[k].phase = "none"
    /\ ServiceStep([serviceStarts EXCEPT ![k] = [NoServiceStart EXCEPT !.phase = "optimal"]],
                   "", ServiceStopResources, ServiceStopLive)

ClientStopsCamera ==
  ServiceStep(serviceStarts, "", ServiceStopResources, ServiceStopLive)

\* getUserMedia resolves with a new stream: it is registered and becomes the active one
DeviceGrantsStream ==
  \E k \in ServiceCalls :
    /\ serviceStarts[k].phase \in {"optimal", "minimal"}
    /\ HasFreshStream
    /\ LET stream == FreshStream
           id == IF serviceStarts[k].phase = "optimal" THEN "primary_camera"
                 ELSE "fallback_camera"
       IN  ServiceStep([serviceStarts EXCEPT ![k] = [NoServiceStart EXCEPT
                                                       !.phase = "resolved",
                                                       !.stream = stream]],
                       id, registerMediaStream(resources, stream, id),
                       liveStreams \cup {stream})

DeviceRefusesOptimal ==
  \E k \in ServiceCalls :
    /\ serviceStarts[k].phase = "optimal"
    /\ ServiceStep([serviceStarts EXCEPT ![k].phase = "minimal"],
                   activeStreamId, resources, liveStreams)

DeviceRefusesMinimal ==
  \E k \in ServiceCalls, name \in CameraErrorNames :
    /\ serviceStarts[k].phase = "minimal"
    /\ ServiceStep([serviceStarts EXCEPT ![k] = [NoServiceStart EXCEPT
                                                   !.phase = "rejected",
                                                   !.error = createCameraError(name).name]],
                   activeStreamId, resources, liveStreams)

\* the caller has taken the stream or the error
ClientTakesOutcome ==
  \E k \in ServiceCalls :
    /\ serviceStarts[k].phase \in {"resolved", "rejected"}
    /\ ServiceStep([serviceStarts EXCEPT ![k] = NoServiceStart],
                   activeStreamId, resources, liveStreams)

NextCamera ==
  \/ ClientStartsCamera
  \/ ClientStopsCamera
  \/ DeviceGrantsStream
  \/ DeviceRefusesOptimal
  \/ DeviceRefusesMinimal
  \/ ClientTakesOutcome
  \/ PageHidden

\* does useCamera.startCamera of the render seen in snap go past its guard?
CameraStarts(snap) == ~camera.isStartingRef /\ ~snap.camActive

(***************************************************************************)
(* useCapture                                                              *)
(***************************************************************************)
AutoTimers == 1..MaxAutoTimers
\* switchMode treats "nutrition-label", "ai-analysis" and "manual" alike
Modes == {"barcode", "manual"}

\* a pending auto-detection timeout, the state its callback closed over, and whether
\* a lookup has succeeded since it was set (history)
NoTimer == [pending |-> FALSE, complete |-> FALSE, hasResult |-> FALSE,
            resultSince |-> FALSE]

InitCapture ==
  [mode |-> "barcode", isActive |-> FALSE, isProcessing |-> FALSE,
   autoDetectionComplete |-> FALSE, showModeSelection |-> FALSE,
   lookupResult |-> NoResult, error |-> "",
   videoRef |-> FALSE, autoDetectionTimeoutRef |-> 0,
   timers |-> [i \in AutoTimers |-> NoTimer],
   stopped |-> FALSE, commands |-> 0]

(***************************************************************************)
(* MealSelectionModal, CapturePage.handleMealConfirm and the meal storage  *)
(***************************************************************************)
\* Amounts are integers: calories in kcal, the other nutrition fields in tenths of
\* a gram (12.5 g is 125), servings in quarters (2.5 servings is 10).
MEAL_TYPES == {"breakfast", "lunch", "dinner", "snack"}
Nutrients == {"carbs", "fat", "protein", "fiber"}

\* per-100g nutrition as extractNutritionFromProduct delivers it: calories an
\* integer, the other fields with one decimal
ModalProducts ==
  {[name |-> "Granola", brand |-> "", barcode |-> "12345678", source |-> "barcode",
    nutrition |-> [calories |-> 100, carbs |-> 200, fat |-> 50, protein |-> 80, fiber |-> 30]],
   [name |-> "Coca-Cola Classic", brand |-> "Coca-Cola", barcode |-> "049000028911",
    source |-> "barcode",
    nutrition |-> [calories |-> 43, carbs |-> 106, fat |-> 3, protein |-> 7, fiber |-> 0]]}

\* Math.round(n / d) for n >= 0: the nearest integer, a half rounded up
RoundHalfUp(n, d) == (2 * n + d) \div (2 * d)
IsHalf(n, d) == (2 * n) % (2 * d) = d

\* Math.round of a product computed in doubles.  The product n / d is a half only
\* in the reals: when a factor has no exact double (exact = FALSE) the double
\* product lies a rounding error above or below the half, and Math.round gives the
\* integer above (up) or below it.
MathRound(n, d, exact, up) ==
  IF IsHalf(n, d) /\ ~exact /\ ~up THEN RoundHalfUp(n, d) - 1 ELSE RoundHalfUp(n, d)

\* a number of tenths has an exact double iff it is a multiple of 0.5
ExactTenths(t) == t % 5 = 0

\* totals that forget the servings of the fiber
MutantCalculateTotalNutrition(nutrition, servings, up) ==
  [calories |-> MathRound(nutrition.calories * servings, 4, TRUE, TRUE),
   carbs |-> MathRound(nutrition.carbs * servings, 4, ExactTenths(nutrition.carbs), up.carbs),
   fat |-> MathRound(nutrition.fat * servings, 4, ExactTenths(nutrition.fat), up.fat),
   protein |-> MathRound(nutrition.protein * servings, 4, ExactTenths(nutrition.protein),
                         up.protein),
   fiber |-> nutrition.fiber]

\* calories: Math.round(calories * servings), exact in doubles;
\* the others: Math.round(x * servings * 10) / 10, kept in tenths
calculateTotalNutrition(nutrition, servings, up) ==
  [calories |-> MathRound(nutrition.calories * servings, 4, TRUE, TRUE),
   carbs |-> MathRound(nutrition.carbs * servings, 4, ExactTenths(nutrition.carbs), up.carbs),
   fat |-> MathRound(nutrition.fat * servings, 4, ExactTenths(nutrition.fat), up.fat),
   protein |-> MathRound(nutrition.protein * servings, 4, ExactTenths(nutrition.protein),
                         up.protein),
   fiber |-> MathRound(nutrition.fiber * servings, 4, ExactTenths(nutrition.fiber), up.fiber)]

Max(a, b) == IF a >= b THEN a ELSE b

\* newServings = Math.max(0.5, servings + delta); Math.round(newServings * 2) / 2
adjustServings(servings, delta) ==
  LET newServings == Max(2, servings + delta)
  IN  2 * RoundHalfUp(newServings, 2)

\* the deltas of the minus and plus buttons: 0.5 servings
ServingDeltas == {-2, 2}

NoHandoff == [none |-> TRUE]
NoMealResult == [none |-> TRUE]
NoMeal == [none |-> TRUE]
\* history of the clients that call the meal storage themselves: the meal as it was
\* persisted before the last addFoodToMeal, and whether localStorage has thrown
NoUndo == [state |-> "none"]

\* captureResult (whether it holds a successful result), pendingProduct and
\* showMealModal of CapturePage; selectedMeal and servings of the modal; what
\* handleConfirm handed to onConfirm last, and what addFoodToMeal returned (history)
InitModal ==
  [captureResult |-> FALSE, pendingProduct |-> NoProduct, showMealModal |-> FALSE,
   selectedMeal |-> "lunch", servings |-> 4,
   handoff |-> NoHandoff, result |-> NoMealResult, entries |-> 0,
   undo |-> NoUndo, ioFailed |-> FALSE]

\* localStorage.getItem('maestro_meals'): no item, an array of meals, a string that
\* JSON.parse rejects, or JSON of something that is no array
NoItem == [kind |-> "none", meals |-> <<>>]
StoredMeals(meals) == [kind |-> "array", meals |-> meals]
DamagedItems == {[kind |-> "unparseable", meals |-> <<>>], [kind |-> "notArray", meals |-> <<>>]}

Today == "2025-01-15"

\* getAllMeals: whatever getItem or JSON.parse throws is caught and [] is returned
getAllMeals(store, getItemThrows) ==
  IF getItemThrows \/ store.kind \in {"none", "unparseable"}
    THEN [isArray |-> TRUE, meals |-> <<>>]
    ELSE [isArray |-> store.kind = "array", meals |-> store.meals]

\* saveMeals: whatever setItem throws is caught; nothing is returned
saveMeals(store, meals, setItemThrows) ==
  IF setItemThrows THEN store ELSE StoredMeals(meals)

MealIndex(meals, mealType) ==
  {i \in 1..Len(meals) : meals[i].type = mealType /\ meals[i].date = Today}

RECURSIVE SumOf(_, _)
SumOf(entries, field) ==
  IF entries = <<>> THEN 0
  ELSE entries[1].nutrition[field] + SumOf(Tail(entries), field)

calculateMealNutrition(entries) ==
  [calories |-> SumOf(entries, "calories"), carbs |-> SumOf(entries, "carbs"),
   fat |-> SumOf(entries, "fat"), protein |-> SumOf(entries, "protein"),
   fiber |-> SumOf(entries, "fiber")]

\* addFoodToMeal: the value returned and the item of localStorage afterwards.
\* meals.find throws a TypeError when the stored JSON is no array: the catch block.
\* getAllMeals is called twice, by addFoodToMeal and by getOrCreateMeal, within one
\* synchronous call: both read the same item and meet the same failure. id stands
\* for Date.now(), which names the entry and a meal that is created.
addFoodToMeal(product, mealType, servings, totalNutrition, store, id, io) ==
  LET parsed == getAllMeals(store, io.getItemThrows)
      meals == parsed.meals
      found == MealIndex(meals, mealType)
      meal == IF found # {} THEN meals[CHOOSE i \in found : \A j \in found : i <= j]
              ELSE [id |-> <<mealType, Today, id>>, type |-> mealType, date |-> Today,
                    entries |-> <<>>,
                    totalNutrition |-> calculateMealNutrition(<<>>)]
      entry == [id |-> id, foodName |-> product.name, brand |-> product.brand,
                barcode |-> product.barcode, servings |-> servings,
                nutrition |-> totalNutrition,
                source |-> product.source]
      entries == Append(meal.entries, entry)
      updated == [meal EXCEPT !.entries = entries,
                              !.totalNutrition = calculateMealNutrition(entries)]
      mealIndex == {i \in 1..Len(meals) : meals[i].id = updated.id}
      saved == IF mealIndex # {}
                 THEN [i \in 1..Len(meals) |->
                         IF i = (CHOOSE k \in mealIndex : \A j \in mealIndex : k <= j)
                           THEN updated ELSE meals[i]]
                 ELSE Append(meals, updated)
  IN  IF ~parsed.isArray
        THEN [result |-> [success |-> FALSE, meal |-> NoMeal,
                          error |-> "meals.find is not a function",
                          entry |-> id, io |-> io],
              store |-> store]
        ELSE [result |-> [success |-> TRUE, meal |-> updated, error |-> "",
                          entry |-> id, io |-> io],
              store |-> saveMeals(store, saved, io.setItemThrows)]

MealStep(nextModal, nextStorage) ==
  /\ modal' = nextModal
  /\ localStorage' = nextStorage
  /\ UNCHANGED <<scan, camera, capture, activeStreamId, resources, liveStreams, manager,
                 serviceStarts, boundary>>
  /\ UNCHANGED lookupVars

\* handleBarcodeSuccess: setCaptureResult(result), called for successful lookups only
handleBarcodeSuccess(page) == [page EXCEPT !.captureResult = TRUE]

\* resetCapture
resetCapture(page) ==
  [page EXCEPT !.captureResult = FALSE, !.showMealModal = FALSE,
               !.pendingProduct = NoProduct]

\* the capture flow has looked a product up: the nutrition card is shown
ProductIsScanned ==
  /\ ~modal.showMealModal
  /\ ~modal.captureResult
  /\ MealStep(handleBarcodeSuccess(modal), localStorage)

\* handleNutritionConfirm: the product of the nutrition card becomes pendingProduct
\* and the modal is shown (mounted anew, with its initial state, when there was no
\* pendingProduct)
UserConfirmsNutrition ==
  \E product \in ModalProducts :
    /\ modal.captureResult
    /\ ~modal.showMealModal
    /\ MealStep([modal EXCEPT
                   !.pendingProduct = product, !.showMealModal = TRUE,
                   !.selectedMeal = IF modal.pendingProduct = NoProduct
                                      THEN "lunch" ELSE modal.selectedMeal,
                   !.servings = IF modal.pendingProduct = NoProduct
                                  THEN 4 ELSE modal.servings],
                localStorage)

\* the meal buttons the model's user presses
SelectableMeals == {"lunch", "dinner"}

UserSelectsMeal ==
  \E mealType \in SelectableMeals :
    /\ modal.showMealModal
    /\ MealStep([modal EXCEPT !.selectedMeal = mealType], localStorage)

\* the plus and minus buttons
UserAdjustsServings ==
  \E delta \in ServingDeltas :
    /\ modal.showMealModal
    /\ adjustServings(modal.servings, delta) <= MaxServings
    /\ MealStep([modal EXCEPT !.servings = adjustServings(modal.servings, delta)],
                localStorage)

\* the X and Cancel buttons: onClose
UserCancelsModal ==
  /\ modal.showMealModal
  /\ MealStep([modal EXCEPT !.showMealModal = FALSE], localStorage)

\* handleConfirm: onConfirm(selectedMeal, servings, totalNutrition), which is
\* handleMealConfirm and calls addFoodToMeal, then onClose
UserConfirmsMeal ==
  \E up \in [Nutrients -> BOOLEAN], getItemThrows \in BOOLEAN, setItemThrows \in BOOLEAN :
    LET product == modal.pendingProduct
        totalNutrition == calculateTotalNutrition(product.nutrition, modal.servings, up)
        handoff == [product |-> product, mealType |-> modal.selectedMeal,
                    servings |-> modal.servings, totalNutrition |-> totalNutrition]
        added == addFoodToMeal(product, modal.selectedMeal, modal.servings,
                               totalNutrition, localStorage, modal.entries + 1,
                               [getItemThrows |-> getItemThrows,
                                setItemThrows |-> setItemThrows])
    IN  /\ modal.showMealModal
        /\ modal.entries < MaxEntries
        /\ MealStep([(IF added.result.success THEN resetCapture(modal) ELSE modal) EXCEPT
                       !.handoff = handoff, !.result = added.result,
                       !.entries = modal.entries + 1,
                       !.showMealModal = FALSE],
                    added.store)

\* something else writes the item: another version of the application, the user
StorageIsDamaged ==
  \E item \in DamagedItems :
    /\ localStorage # item
    /\ ~modal.showMealModal
    /\ MealStep(modal, item)

NextMeal ==
  \/ ProductIsScanned
  \/ UserConfirmsNutrition
  \/ UserSelectsMeal
  \/ UserAdjustsServings
  \/ UserCancelsModal
  \/ UserConfirmsMeal
  \/ StorageIsDamaged

(***************************************************************************)
(* CameraErrorBoundary                                                     *)
(***************************************************************************)
UpperCaseLetters == "ABCDEFGHIJKLMNOPQRSTUVWXYZ"
LowerCaseLetters == "abcdefghijklmnopqrstuvwxyz"

\* String.prototype.toLowerCase on the letters A-Z
RECURSIVE toLowerCase(_)
toLowerCase(s) ==
  IF Len(s) = 0 THEN ""
  ELSE LET c == CharAt(s, 1)
           at == {i \in 1..26 : CharAt(UpperCaseLetters, i) = c}
       IN  (IF at = {} THEN c ELSE CharAt(LowerCaseLetters, CHOOSE i \in at : TRUE))
             \o toLowerCase(SubSeq(s, 2, Len(s)))

\* String.prototype.includes
includes(s, part) ==
  \E i \in 1..(Len(s) - Len(part) + 1) : SubSeq(s, i, i + Len(part) - 1) = part

\* what the children of the boundary throw while they render
ThrownMessages ==
  {"NotAllowedError: Permission denied", "Camera stream ended", "Barcode decoder failed",
   "Hardware NotFoundError", "Cannot read properties of null"}

NoThrown == [none |-> TRUE]

getErrorType(error) ==
  IF error = NoThrown THEN "unknown"
  ELSE LET message == toLowerCase(error.message)
       IN  IF includes(message, "permission") \/ includes(message, "notallowed")
             THEN "permission"
           ELSE IF includes(message, "camera") \/ includes(message, "video")
             THEN "camera"
           ELSE IF includes(message, "barcode") \/ includes(message, "scanning")
             THEN "barcode"
           ELSE IF includes(message, "hardware") \/ includes(message, "notfound")
             THEN "hardware"
           ELSE "unknown"

\* the props: maxRetries, which may be left out, and whether a fallback component is
\* given
DefaultMaxRetries == 3
MaxRetriesOptions == 0..4
BoundaryProps ==
  {[given |-> FALSE, maxRetries |-> 0, fallback |-> f] : f \in BOOLEAN}
    \cup {[given |-> TRUE, maxRetries |-> m, fallback |-> f] :
            m \in MaxRetriesOptions, f \in BOOLEAN}

\* const { maxRetries = 3 } = this.props
maxRetries(b) == IF b.props.given THEN b.props.maxRetries ELSE DefaultMaxRetries

\* the state of the constructor; retryCalls counts the calls of handleRetry and last
\* names the last thing that happened (history)
InitBoundary(props) ==
  [props |-> props, hasError |-> FALSE, error |-> NoThrown, errorInfo |-> FALSE,
   retryCount |-> 0, retryCalls |-> 0, last |-> "none"]

\* getDerivedStateFromError and componentDidCatch
componentDidCatch(b, message) ==
  [b EXCEPT !.hasError = TRUE, !.error = [message |-> message], !.errorInfo = TRUE]

\* a handleRetry that does not test the limit
MutantHandleRetry(b) ==
  [b EXCEPT !.hasError = FALSE, !.error = NoThrown, !.errorInfo = FALSE,
            !.retryCount = @ + 1]

handleRetry(b) ==
  IF b.retryCount >= maxRetries(b) THEN b
  ELSE [b EXCEPT !.hasError = FALSE, !.error = NoThrown, !.errorInfo = FALSE,
                 !.retryCount = @ + 1]

\* handleFileUpload: nothing happens unless a file was chosen
handleFileUpload(b, hasFile) ==
  IF hasFile THEN [b EXCEPT !.hasError = FALSE, !.error = NoThrown, !.errorInfo = FALSE]
  ELSE b

handleManualEntry(b) ==
  [b EXCEPT !.hasError = FALSE, !.error = NoThrown, !.errorInfo = FALSE]

canRetry(b) == b.retryCount < maxRetries(b)

\* render: what the fallback offers. The default fallback shows the retry button
\* while canRetry, the upload for a permission or hardware error or when no retry is
\* left, and the manual entry always; a fallback component is handed all three
\* handlers, and canRetry.
Offers(b) ==
  IF ~b.hasError THEN {}
  ELSE IF b.props.fallback THEN {"retry", "upload", "manual"}
  ELSE {"manual"}
         \cup (IF canRetry(b) THEN {"retry"} ELSE {})
         \cup (IF getErrorType(b.error) \in {"permission", "hardware"} \/ ~canRetry(b)
                 THEN {"upload"} ELSE {})

BoundaryStep(next) ==
  /\ boundary' = next
  /\ UNCHANGED <<scan, camera, capture, activeStreamId, resources, liveStreams, manager,
                 serviceStarts, modal, localStorage>>
  /\ UNCHANGED lookupVars

ChildThrows ==
  \E message \in ThrownMessages :
    /\ ~boundary.hasError
    /\ BoundaryStep([componentDidCatch(boundary, message) EXCEPT !.last = "error"])

UserRetriesAfterError ==
  /\ "retry" \in Offers(boundary)
  /\ boundary.retryCalls < MaxRetryCalls
  /\ BoundaryStep([handleRetry(boundary) EXCEPT !.retryCalls = @ + 1, !.last = "retry"])

UserUploadsPhoto ==
  \E hasFile \in BOOLEAN :
    /\ "upload" \in Offers(boundary)
    /\ BoundaryStep([handleFileUpload(boundary, hasFile) EXCEPT !.last = "upload"])

UserEntersManually ==
  /\ "manual" \in Offers(boundary)
  /\ BoundaryStep([handleManualEntry(boundary) EXCEPT !.last = "manual"])

NextBoundary ==
  \/ ChildThrows
  \/ UserRetriesAfterError
  \/ UserUploadsPhoto
  \/ UserEntersManually

\* the hooks, the page and the storage before anything has happened
InitPage ==
  /\ camera = InitCamera
  /\ capture = InitCapture
  /\ activeStreamId = ""
  /\ resources = << >>
  /\ liveStreams = {}
  /\ manager = InitManager
  /\ serviceStarts = [k \in ServiceCalls |-> NoServiceStart]
  /\ modal = InitModal
  /\ localStorage = NoItem

\* CapturePage renders <CameraErrorBoundary maxRetries={3}> without a fallback
InitHooks ==
  /\ InitPage
  /\ boundary = InitBoundary([given |-> TRUE, maxRetries |-> 3, fallback |-> FALSE])

HasFreeTimer(cap) == \E i \in AutoTimers : ~cap.timers[i].pending
FreeTimer(cap) == CHOOSE i \in AutoTimers :
                    /\ ~cap.timers[i].pending
                    /\ \A j \in AutoTimers : ~cap.timers[j].pending => i <= j

\* startAutoDetection of the render seen in snap: what it does to the capture hook ...
startAutoDetection(cap, snap) ==
  IF ~cap.videoRef THEN cap
  ELSE [cap EXCEPT !.mode = "barcode", !.autoDetectionComplete = FALSE,
                   !.showModeSelection = FALSE, !.error = "",
                   !.autoDetectionTimeoutRef = FreeTimer(cap),
                   !.timers[FreeTimer(cap)] =
                      [pending |-> TRUE, complete |-> snap.complete,
                       hasResult |-> snap.hasResult, resultSince |-> FALSE]]

\* ... and to the detector
AutoDetectionScan(cap, sc, snap) ==
  IF ~cap.videoRef THEN sc ELSE startContinuousScanning(sc, snap.scanCount)

AutoDetectionReady(cap, sc) == cap.videoRef => HasFreeLoop(sc) /\ HasFreeTimer(cap)

clearResult(cap) ==
  [cap EXCEPT !.lookupResult = NoResult, !.error = "", !.isProcessing = FALSE,
              !.autoDetectionComplete = FALSE, !.showModeSelection = FALSE]

\* if (autoDetectionTimeoutRef.current) { clearTimeout(...); ...current = null }
ClearAutoDetectionTimeout(cap) ==
  IF cap.autoDetectionTimeoutRef = 0 THEN cap
  ELSE [cap EXCEPT !.autoDetectionTimeoutRef = 0,
                   !.timers[cap.autoDetectionTimeoutRef] = NoTimer]

\* the user has given fewer than MaxCommands commands; cap is the capture hook after
\* one more
MayCommand == capture.commands < MaxCommands
Commanded(cap) == [cap EXCEPT !.commands = @ + 1]

\* one step of the hooks: the detector registers its reader when it creates it
HookPageStep(nextCapture, nextScan, nextCamera, nextActiveStreamId, nextResources,
             nextLive, nextPage) ==
  /\ capture' = nextCapture
  /\ scan' = nextScan
  /\ camera' = nextCamera
  /\ activeStreamId' = nextActiveStreamId
  /\ resources' = ScannerRegistered(nextResources, scan, nextScan)
  /\ liveStreams' = nextLive
  /\ manager' = CleanupScheduled(manager, resources, resources')
  /\ modal' = nextPage
  /\ UNCHANGED <<serviceStarts, localStorage, boundary>>

\* one step of the hooks that calls nothing of the page
HookStep(nextCapture, nextScan, nextCamera, nextActiveStreamId, nextResources, nextLive) ==
  HookPageStep(nextCapture, nextScan, nextCamera, nextActiveStreamId, nextResources,
               nextLive, modal)

\* startCapture of the render seen in snap, from the capture state cap and detector sc
startCapture(cap, sc, snap) ==
  LET started == [cap EXCEPT !.isActive = TRUE, !.error = "", !.lookupResult = NoResult,
                             !.autoDetectionComplete = FALSE,
                             !.showModeSelection = FALSE, !.stopped = FALSE]
  IN  IF CameraStarts(snap)
        THEN HookStep(started, sc,
                      [camera EXCEPT !.isStartingRef = TRUE, !.isLoading = TRUE,
                                     !.error = "",
                                     !.op = [phase |-> "optimal", stream |-> 0,
                                             snap |-> snap]],
                      "", ServiceStopResources, ServiceStopLive)
        ELSE HookStep(started, sc, camera, activeStreamId, resources, liveStreams)

UserStartsCapture ==
  /\ NoContinuationPending
  /\ MayCommand
  /\ startCapture(Commanded(capture), scan, Snapshot)
  /\ UNCHANGED lookupVars

UserRetriesCapture ==
  /\ NoContinuationPending
  /\ MayCommand
  /\ LET cleared == [clearResult(Commanded(capture)) EXCEPT !.stopped = FALSE]
         reset == resetResult(scan)
     IN  IF camera.isActive /\ capture.videoRef
           THEN /\ AutoDetectionReady(cleared, reset)
                /\ HookStep(startAutoDetection(cleared, Snapshot),
                            AutoDetectionScan(cleared, reset, Snapshot),
                            camera, activeStreamId, resources, liveStreams)
           ELSE startCapture(cleared, reset, Snapshot)
  /\ UNCHANGED lookupVars

UserSwitchesMode ==
  /\ NoContinuationPending
  /\ MayCommand
  /\ \E newMode \in Modes :
       LET stoppedScan == stopContinuousScanning(scan)
           switched == [Commanded(capture) EXCEPT !.mode = newMode, !.autoDetectionComplete = TRUE,
                                       !.showModeSelection = (newMode # "barcode"),
                                       !.error = "", !.stopped = FALSE]
       IN  IF newMode = "barcode" /\ capture.videoRef
             THEN /\ HasFreeLoop(stoppedScan)
                  /\ HookStep(switched, startContinuousScanning(stoppedScan, scan.scanCount),
                              camera, activeStreamId, resources, liveStreams)
             ELSE HookStep(switched, stoppedScan, camera, activeStreamId, resources,
                           liveStreams)
  /\ UNCHANGED lookupVars

stopCapture ==
  HookStep([ClearAutoDetectionTimeout(Commanded(capture)) EXCEPT
               !.isActive = FALSE, !.isProcessing = FALSE,
               !.autoDetectionComplete = FALSE, !.showModeSelection = FALSE,
               !.stopped = TRUE],
           stopContinuousScanning(scan),
           [camera EXCEPT !.stream = 0, !.isActive = FALSE, !.isLoading = FALSE,
                          !.error = "", !.streamRef = 0],
           "", ServiceStopResources, ServiceStopLive)

UserStopsCapture ==
  /\ NoContinuationPending
  /\ MayCommand
  /\ stopCapture
  /\ UNCHANGED lookupVars

\* the page gives the hook its video element once the camera state has a stream
setupVideoElement ==
  /\ NoContinuationPending
  /\ camera.stream # 0
  /\ ~capture.videoRef
  /\ capture' = [capture EXCEPT !.videoRef = TRUE]
  /\ UNCHANGED <<scan, camera, activeStreamId, resources, liveStreams, manager,
                  serviceStarts, modal, localStorage, boundary>>
  /\ UNCHANGED lookupVars

(***************************************************************************)
(* The asynchronous steps of the hooks                                     *)
(***************************************************************************)
\* navigator.mediaDevices.getUserMedia resolves: CameraService registers the stream
\* and useCamera.startCamera goes on to configure it
GetUserMediaResolves ==
  /\ NoContinuationPending
  /\ camera.op.phase \in {"optimal", "minimal"}
  /\ HasFreshStream
  /\ LET stream == FreshStream
         id == IF camera.op.phase = "optimal" THEN "primary_camera" ELSE "fallback_camera"
     IN  HookStep(capture, scan,
                  [camera EXCEPT !.streamRef = stream, !.op.phase = "configuring",
                                 !.op.stream = stream],
                  id, registerMediaStream(resources, stream, id),
                  liveStreams \cup {stream})
  /\ UNCHANGED lookupVars

\* getUserMedia rejects the optimal constraints: the minimal ones are tried
OptimalConstraintsFail ==
  /\ NoContinuationPending
  /\ camera.op.phase = "optimal"
  /\ HookStep(capture, scan, [camera EXCEPT !.op.phase = "minimal"],
              activeStreamId, resources, liveStreams)
  /\ UNCHANGED lookupVars

\* getUserMedia rejects the minimal constraints too: the catch block of
\* useCamera.startCamera and the onError handler of useCapture
MinimalConstraintsFail ==
  /\ NoContinuationPending
  /\ camera.op.phase = "minimal"
  /\ \E name \in CameraErrorNames :
       LET cameraError == createCameraError(name)
       IN  HookStep([capture EXCEPT !.error = cameraError.message, !.isActive = FALSE,
                                    !.showModeSelection = cameraError.fallbackAvailable],
                    scan,
                    [camera EXCEPT !.stream = 0, !.isActive = FALSE, !.isLoading = FALSE,
                                   !.error = cameraError.name,
                                   !.hasPermission = IF cameraError.name = "NotAllowedError"
                                                       THEN "false" ELSE "null",
                                   !.isStartingRef = FALSE, !.op = NoOp,
                                   !.restart = RestartSettled(camera)],
                    activeStreamId, resources, liveStreams)
  /\ UNCHANGED lookupVars

\* capabilities read and stream optimized: the camera is active and onSuccess starts
\* the auto-detection of the render that called startCamera
CameraConfigured ==
  /\ NoContinuationPending
  /\ camera.op.phase = "configuring"
  /\ AutoDetectionReady(capture, scan)
  /\ HookStep(startAutoDetection(capture, camera.op.snap),
              AutoDetectionScan(capture, scan, camera.op.snap),
              [camera EXCEPT !.stream = camera.op.stream, !.isActive = TRUE,
                             !.isLoading = FALSE, !.hasPermission = "true", !.error = "",
                             !.isStartingRef = FALSE, !.op = NoOp,
                             !.restart = RestartSettled(camera)],
              activeStreamId, resources, liveStreams)
  /\ UNCHANGED lookupVars

Handlers == 1..MaxHandlers
HasIdleCall == \E c \in Handlers : calls[c].state = "idle"
IdleCallSlot == CHOOSE c \in Handlers :
                  /\ calls[c].state = "idle"
                  /\ \A d \in Handlers : calls[d].state = "idle" => c <= d

\* handleBarcodeDetected, up to its await of lookupByBarcode
handleBarcodeDetected(cap) == [cap EXCEPT !.isProcessing = TRUE, !.error = ""]

\* the decode of loop i resolves with a code: onDetected runs handleBarcodeDetected
DetectedBy(i, text) ==
  /\ scan.loops[i].phase = "decoding"
  /\ HookStep(handleBarcodeDetected(capture), ScanAfterDetected(scan, i, text),
              camera, activeStreamId, resources, liveStreams)
  /\ lookupByBarcode(IdleCallSlot, text, CaptureLookupOptions)

BarcodeDetected ==
  /\ NoContinuationPending
  /\ HasIdleCall
  /\ \E i \in Loops, text \in DetectTexts : DetectedBy(i, text)

TimersAfter(timers, result) ==
  [i \in AutoTimers |->
     IF timers[i].pending /\ result.success
       THEN [timers[i] EXCEPT !.resultSince = TRUE]
       ELSE timers[i]]

\* lookupByBarcode has resolved: the rest of handleBarcodeDetected, whose
\* onBarcodeDetected is, through CameraInterface, handleBarcodeSuccess of the page
LookupResolves ==
  \E c \in Calls :
    /\ calls[c].state = "done"
    /\ LET result == calls[c].result
       IN  HookPageStep([capture EXCEPT !.lookupResult = result, !.isProcessing = FALSE,
                                        !.autoDetectionComplete = TRUE,
                                        !.showModeSelection = ~result.success,
                                        !.timers = TimersAfter(capture.timers, result)],
                        scan, camera, activeStreamId, resources, liveStreams,
                        IF result.success THEN handleBarcodeSuccess(modal) ELSE modal)
    /\ calls' = [calls EXCEPT ![c] = IdleCall]
    /\ UNCHANGED <<now, ticks, cache, requestQueue, requests, lastOk, vInput, assessed>>

\* the callback given to setTimeout by startAutoDetection
AutoDetectionTimeout(i) ==
  /\ capture.timers[i].pending
  /\ IF ~capture.timers[i].complete /\ ~capture.timers[i].hasResult
       THEN HookStep([capture EXCEPT !.timers[i] = NoTimer,
                                     !.autoDetectionComplete = TRUE,
                                     !.showModeSelection = TRUE],
                     stopContinuousScanning(scan),
                     camera, activeStreamId, resources, liveStreams)
       ELSE HookStep([capture EXCEPT !.timers[i] = NoTimer],
                     scan, camera, activeStreamId, resources, liveStreams)
  /\ UNCHANGED lookupVars

\* the product database answers the orchestrator's lookup
DatabaseAnswers ==
  /\ NoContinuationPending
  /\ \E r \in Calls :
       \E p \in {FullProduct(requests[r].barcode), NoProduct} : NetworkResponds(r, p)

AutoDetectionTimeoutFires ==
  NoContinuationPending /\ \E i \in AutoTimers : AutoDetectionTimeout(i)

ScanFindsNothing == NoContinuationPending /\ DecodeFindsNothing
ScanFails == NoContinuationPending /\ DecodeFails
ScanTimerFires == NoContinuationPending /\ NextScanTimerFires

(***************************************************************************)
(* The detector under arbitrary clients                                    *)
(***************************************************************************)
ScanAttemptOptions == 1..MaxAttemptsOpt

InitDetector ==
  /\ InitLookup
  /\ vInput = ""
  /\ assessed = NoAssessment
  /\ InitHooks
  /\ \E maxScanAttempts \in ScanAttemptOptions : scan = InitScan(maxScanAttempts, MaxAttemptsCounted)

NextScan ==
  \/ ClientStartsScanning
  \/ ClientStopsScanning
  \/ ClientResetsResult
  \/ DecodeDetects
  \/ DecodeFindsNothing
  \/ DecodeFails
  \/ NextScanTimerFires

SpecScan == InitDetector /\ [][NextScan]_vars

(***************************************************************************)
(* The capture orchestrator with its camera, detector and lookup service   *)
(***************************************************************************)
InitOrchestrator ==
  /\ InitLookup
  /\ vInput = ""
  /\ assessed = NoAssessment
  /\ InitHooks
  /\ scan = InitScan(CaptureMaxScanAttempts, 0)

NextCapture ==
  \/ UserStartsCapture
  \/ UserRetriesCapture
  \/ UserSwitchesMode
  \/ UserStopsCapture
  \/ setupVideoElement
  \/ GetUserMediaResolves
  \/ OptimalConstraintsFail
  \/ MinimalConstraintsFail
  \/ CameraConfigured
  \/ BarcodeDetected
  \/ ScanFindsNothing
  \/ ScanFails
  \/ ScanTimerFires
  \/ AutoDetectionTimeoutFires
  \/ LookupResolves
  \/ DatabaseAnswers
  \/ TimerFires
  \/ RetryStarts

SpecCapture == InitOrchestrator /\ [][NextCapture]_vars

\* the lookup service alone: the hooks are never used
SpecLookup == InitOrchestrator /\ [][NextLookup]_vars

SpecCache == InitOrchestrator /\ [][NextCache]_vars

(***************************************************************************)
(* lookupByBarcode on arbitrary strings                                    *)
(***************************************************************************)
DigitRun(n) == SubSeq("12345678901234567890", 1, n)

\* runs of digits, bare or with a dash, a space or a letter in front or inside
InputStrings ==
  {DigitRun(n) : n \in 0..MaxDigits}
    \cup {sep \o DigitRun(n) : sep \in {"-", " ", "a"}, n \in 0..MaxDigits}
    \cup {DigitRun(4) \o sep \o DigitRun(n) : sep \in {"-", " ", "a"}, n \in 0..MaxDigits - 4}

ClientCallsInput ==
  /\ NoContinuationPending
  /\ \E c \in Calls, o \in CacheOptions : lookupByBarcode(c, vInput, o)
  /\ UNCHANGED hookVars

NextValidate ==
  \/ ClientCallsInput
  \/ NetworkAnswers
  \/ TimerFires
  \/ RetryStarts
  \/ ClientReturns

InitValidate ==
  /\ InitLookup
  /\ vInput \in InputStrings
  /\ assessed = NoAssessment
  /\ InitHooks
  /\ scan = InitScan(CaptureMaxScanAttempts, 0)

SpecValidate == InitValidate /\ [][NextValidate]_vars

(***************************************************************************)
(* Properties of the lookup service                                        *)
(***************************************************************************)
ActiveRequests == {r \in Calls : requests[r].state # "none"}
Shared(c, d) ==
  /\ c # d
  /\ calls[c].state = "done" /\ calls[c].role = "creator"
  /\ calls[d].state = "done" /\ calls[d].role = "joiner" /\ calls[d].req = c

\* C1 (as amended): a lookupByBarcode(B) made while another lookupByBarcode(B) is
\* unresolved starts no lookup of its own: there is never more than one performLookup
\* in flight for a barcode, every waiting caller awaits the one for its barcode, the
\* one performLookup calls lookupBarcode once per attempt (once more after each
\* timeout, never more than the first caller's maxRetries + 1 times), and the callers
\* receive the same result.
C1_ConcurrentLookupsShareOneRequest ==
  /\ \A r1, r2 \in ActiveRequests : requests[r1].barcode = requests[r2].barcode => r1 = r2
  /\ \A c \in Calls : calls[c].state = "waiting" =>
       /\ calls[c].req \in ActiveRequests
       /\ requests[calls[c].req].barcode = calls[c].barcode
       /\ calls[c].role = "joiner" => requests[c].state = "none"
  /\ \A c, d \in Calls : Shared(c, d) =>
       /\ calls[d].result = calls[c].result
       /\ calls[d].attempts = calls[c].attempts
       /\ calls[c].attempts = Len(calls[c].delays) + 1
       /\ calls[c].attempts <= calls[c].opts.maxRetries + 1

\* two callers of one barcode have received the result of the one shared lookup
C1_Witness == \E c, d \in Calls : Shared(c, d) /\ calls[c].attempts = 1

\* C1 (as stated): lookupBarcode is invoked exactly once for the two calls
C1_AsStated == \A c, d \in Calls : Shared(c, d) => calls[c].attempts = 1

Seconds(n) == n * 1000
ExhaustedCall(c) ==
  /\ calls[c].state = "done"
  /\ calls[c].role = "creator"
  /\ calls[c].result.error = "Request timeout"

\* C9: when every attempt of a lookup times out, the service has made exactly
\* maxRetries + 1 attempts, each raced against a timer of timeoutMs, has waited 2^k
\* seconds after failed attempt k and nothing after the last one, and returns the
\* failure with the network suggestions, which is neither the not-found nor the
\* invalid-format failure.
C9_RetryExhaustion ==
  /\ \A r \in Calls : requests[r].state = "net" =>
       requests[r].timerMs = calls[r].opts.timeoutMs
  /\ \A c \in Calls : ExhaustedCall(c) =>
       /\ calls[c].attempts = calls[c].opts.maxRetries + 1
       /\ Len(calls[c].delays) = calls[c].opts.maxRetries
       /\ \A k \in 0..calls[c].opts.maxRetries - 1 :
            calls[c].delays[k + 1] = Seconds(Pow2(k))
       /\ ~calls[c].result.success
       /\ calls[c].result.fallbackSuggestions = NetworkSuggestions
       /\ calls[c].result # NotFoundResult
       /\ calls[c].result # InvalidFormatResult

\* a lookup with two retries has timed out three times
C9_Witness == \E c \in Calls : ExhaustedCall(c) /\ calls[c].opts.maxRetries = 2

HasManualEntry(suggestions) ==
  \E i \in 1..Len(suggestions) : suggestions[i] = "Enter nutrition information manually"

\* C10 (as amended): the attempt in which lookupBarcode reports null is the last one:
\* at that moment every caller gets the not-found failure, whose suggestions include
\* manual entry, no retry is made and no backoff is waited after it; the lookup has
\* made one attempt more than it had timeouts before, a single one if it had none.
C10_NotFoundIsNotRetried ==
  [][\A r \in Calls : NetworkResponds(r, NoProduct) =>
       /\ requests'[r].state = "none"
       /\ \A c \in Calls : (calls[c].state = "waiting" /\ calls[c].req = r) =>
            /\ calls'[c].state = "done"
            /\ calls'[c].result = NotFoundResult
            /\ HasManualEntry(calls'[c].result.fallbackSuggestions)
            /\ calls'[c].attempts = requests[r].attempt + 1
            /\ Len(calls'[c].delays) = requests[r].attempt]_vars

\* a caller has the not-found failure after a single attempt
C10_Witness ==
  \E c \in Calls : /\ calls[c].state = "done"
                   /\ calls[c].result = NotFoundResult
                   /\ calls[c].attempts = 1

\* C10 (as stated): the not-found failure always comes after a single attempt and
\* no backoff delay
C10_AsStated ==
  \A c \in Calls : (calls[c].state = "done" /\ calls[c].result = NotFoundResult) =>
    calls[c].attempts = 1 /\ calls[c].delays = <<>>

\* the call c that this step starts, if it starts one
Starts(c) == calls[c].state = "idle" /\ calls'[c].state # "idle"

WellFormedWhenCleaned(s) ==
  LET clean == StripSpaceDash(s)
  IN  Len(clean) \in {8, 12, 13} /\ \A i \in 1..Len(clean) : CharAt(clean, i) \in Digits

WellFormedAsGiven(s) ==
  Len(s) \in {8, 12, 13} /\ \A i \in 1..Len(s) : CharAt(s, i) \in Digits

RejectedUntouched(c) ==
  /\ calls'[c].state = "done"
  /\ calls'[c].result = InvalidFormatResult
  /\ calls'[c].result.error = "Invalid barcode format"
  /\ calls'[c].result.fallbackSuggestions = <<"Try scanning again", "Enter product manually">>
  /\ UNCHANGED <<cache, requestQueue, requests>>

\* C8 (as amended): lookupByBarcode on a string that, with its spaces and dashes
\* removed, has a length other than 8, 12 or 13 or holds a non-digit returns the
\* invalid-format failure with its fixed suggestions at once, before any network call
\* and without touching the cache or the in-flight map; every string that, with its
\* spaces and dashes removed, is all digits of length 8, 12 or 13 passes validation,
\* whatever its checksum.
C8_ValidationOfCleanedString ==
  [][\A c \in Calls : Starts(c) =>
       IF WellFormedWhenCleaned(calls'[c].barcode)
         THEN calls'[c].role # "invalid" /\ calls'[c].result # InvalidFormatResult
         ELSE RejectedUntouched(c)]_vars

\* a string of seven digits has been rejected
C8_Witness ==
  \E c \in Calls : /\ calls[c].state = "done"
                   /\ calls[c].result = InvalidFormatResult
                   /\ calls[c].barcode = "1234567"

\* C8 (as stated): every string whose length is not 8, 12 or 13 or that holds a
\* non-digit character is rejected
C8_AsStated ==
  [][\A c \in Calls : (Starts(c) /\ ~WellFormedAsGiven(calls'[c].barcode)) =>
       RejectedUntouched(c)]_vars

SameProductData(p, q) == [p EXCEPT !.cached = FALSE] = [q EXCEPT !.cached = FALSE]

\* C2: a lookupByBarcode(B) with caching enabled, made less than 24 h after a
\* lookupByBarcode(B) with caching enabled succeeded, returns at once the success with
\* cached = true and the same product data, without a network call; one made more
\* than 24 h after it is not served from the cache and finds the entry evicted.
C2_ServedFromCacheWithinMaxAge ==
  [][\A c \in Calls :
       (Starts(c) /\ calls'[c].opts.enableCache /\ calls'[c].barcode \in DOMAIN lastOk) =>
         LET barcode == calls'[c].barcode
             age == now - lastOk[barcode].time
         IN  /\ age < 24 * 60 * 60 * 1000 =>
                  /\ calls'[c].state = "done"
                  /\ calls'[c].result.success
                  /\ calls'[c].result.product.cached
                  /\ SameProductData(calls'[c].result.product, lastOk[barcode].product)
                  /\ UNCHANGED <<requests, requestQueue>>
             /\ age > 24 * 60 * 60 * 1000 =>
                  /\ calls'[c].role # "cachehit"
                  /\ barcode \notin DOMAIN cache']_vars

(***************************************************************************)
(* Properties of the capture orchestrator and its detector                 *)
(***************************************************************************)
CaptureState(cap) ==
  <<cap.mode, cap.isActive, cap.isProcessing, cap.autoDetectionComplete,
    cap.showModeSelection, cap.lookupResult, cap.error>>

\* C3: when a lookup has succeeded before an auto-detection timeout fires, the
\* timeout leaves the successful result as it is and does not bring up the mode
\* selection.
C3_ResultWinsOverTimeout ==
  [][\A i \in AutoTimers :
       (AutoDetectionTimeout(i) /\ capture.timers[i].resultSince
          /\ capture.lookupResult.success) =>
         /\ capture'.lookupResult = capture.lookupResult
         /\ capture'.showModeSelection = capture.showModeSelection]_vars

NothingDetected ==
  /\ capture.lookupResult = NoResult
  /\ ~capture.isProcessing
  /\ ~capture.autoDetectionComplete
  /\ \A c \in Calls : calls[c].state = "idle"

ManualSelectionShown == capture.autoDetectionComplete /\ capture.showModeSelection

\* C4: when the timeout of the running auto-detection fires with nothing detected,
\* the mode selection is shown (autoDetectionComplete and showModeSelection true);
\* a detection that arrives while the mode selection is shown starts no lookup and
\* changes no part of the capture state.
C4_TimeoutShowsSelectionAndLateDetectionIsIgnored ==
  [][/\ \A i \in AutoTimers :
          (AutoDetectionTimeout(i) /\ i = capture.autoDetectionTimeoutRef
             /\ NothingDetected) =>
            capture'.autoDetectionComplete /\ capture'.showModeSelection
     /\ (BarcodeDetected /\ ManualSelectionShown) =>
          /\ calls' = calls
          /\ CaptureState(capture') = CaptureState(capture)]_vars

Settled ==
  /\ camera.op.phase = "none"
  /\ \A c \in Calls : calls[c].state = "idle"
  /\ \A i \in Loops : scan.loops[i].phase # "decoding"
  /\ \A i \in AutoTimers : ~capture.timers[i].pending

\* C5: after stopCapture, once the pending asynchronous steps have settled, no camera
\* stream is live or registered, no scan loop runs, and isActive is false.
C5_StopReleasesCameraAndScanner ==
  (capture.stopped /\ Settled) =>
    /\ liveStreams = {}
    /\ \A id \in DOMAIN resources : resources[id].type # "mediaStream"
    /\ activeStreamId = ""
    /\ ~scan.continuousScanRef
    /\ \A i \in Loops : scan.loops[i].phase = "none"
    /\ ~capture.isActive

NoSessionTimerPending ==
  /\ \A i \in AutoTimers : ~capture.timers[i].pending
  /\ \A i \in Loops : scan.loops[i].phase # "sleeping"
  /\ \A r \in Calls : requests[r].state # "backoff"

\* C6: from the return of stopCapture until the next command, no auto-detection
\* timeout, next-scan timer or retry delay is pending, and nothing changes the
\* capture state (a change onBarcodeDetected or onError would come with).
C6_CancellationIsTotal ==
  [][/\ capture'.stopped => NoSessionTimerPending'
     /\ (capture.stopped /\ capture'.stopped) =>
          CaptureState(capture') = CaptureState(capture)]_vars

\* C7: a continuous scan makes no more than maxScanAttempts decode attempts.
C7_ScanStopsAtMaxAttempts ==
  \A i \in Loops : scan.loops[i].attempts <= scan.maxScanAttempts

(***************************************************************************)
(* C11: a transport or parse failure of the product-database call is not   *)
(* "not found": the attempt in which it happens is retried like a timeout  *)
(* (a backoff delay follows when attempts remain), and when none remain    *)
(* the lookup ends as a network-error failure with the connectivity        *)
(* suggestions; no caller is told "Product not found in database".         *)
(***************************************************************************)
TransportFailureIn(r) ==
  \E f \in TransportFailures : NetworkResponds(r, lookupBarcode(f))

HandledLikeATimeout(r) ==
  IF requests[r].attempt < requests[r].maxRetries
    THEN requests'[r].state = "backoff"
    ELSE \A c \in Calls :
           (calls[c].state = "waiting" /\ calls[c].req = r) =>
             /\ calls'[c].state = "done"
             /\ ~calls'[c].result.success
             /\ calls'[c].result.error # NotFoundResult.error
             /\ calls'[c].result.fallbackSuggestions = NetworkSuggestions

C11_TransportFailureIsNotNotFound ==
  [][\A r \in Calls : TransportFailureIn(r) => HandledLikeATimeout(r)]_vars

(***************************************************************************)
(* The ResourceManager under arbitrary clients                             *)
(***************************************************************************)
SpecResources == InitOrchestrator /\ [][NextResources]_vars

(***************************************************************************)
(* Properties of the ResourceManager                                       *)
(***************************************************************************)
LastCallChangedNothing == Managed = manager.before

\* C12: cleanup(id) on an id that is not registered (never registered, or already
\* released) returns false, changes no entry and nothing that is managed, and does not
\* throw; a cleanupAll() called directly after a cleanupAll() reports 0 resources,
\* changes nothing and does not throw.
C12_CleanupOfUnregisteredIdIsSafe ==
  /\ (manager.op = "cleanup" /\ manager.arg \notin DOMAIN manager.before.resources) =>
       /\ ~manager.found
       /\ ~manager.threw
       /\ LastCallChangedNothing
  /\ (manager.op = "cleanupAll" /\ manager.prev.op = "cleanupAll") =>
       /\ manager.count = 0
       /\ ~manager.threw
       /\ LastCallChangedNothing

\* cleanup(id) directly after the cleanup(id) that released id, other entries remaining
C12_Witness ==
  /\ manager.op = "cleanup" /\ manager.prev.op = "cleanup"
  /\ manager.arg = manager.prev.arg /\ manager.prev.found
  /\ ~manager.found
  /\ DOMAIN resources # {}

\* a second cleanupAll() directly after a cleanupAll() that released three resources
C12_SecondCleanupAll ==
  /\ manager.op = "cleanupAll" /\ manager.prev.op = "cleanupAll"
  /\ manager.prev.count = 3
  /\ manager.count = 0

CleanupCalls == {"cleanup", "cleanupByType", "cleanupAll", "pageHidden"}

\* C13: cleanup(id), cleanupByType and cleanupAll never throw to their caller, and a
\* registered resource whose release action failed in the call (stopping a track,
\* resetting a scanner or clearing a timeout threw) has its entry removed all the same.
C13_FailedReleaseStillRemovesEntry ==
  manager.op \in CleanupCalls =>
    /\ ~manager.threw
    /\ \A id \in manager.failed :
         /\ id \in DOMAIN manager.before.resources
         /\ id \notin DOMAIN resources

\* a cleanupAll() in which the release of a stream and of a scanner failed
C13_Witness ==
  /\ manager.op = "cleanupAll"
  /\ \E s \in manager.failed : manager.before.resources[s].type = "mediaStream"
  /\ \E s \in manager.failed : manager.before.resources[s].type = "scanner"
  /\ manager.count = 4
  /\ DOMAIN resources = {}

\* C14: cleanupByType('mediaStream'), which is what the page does when it becomes
\* hidden, removes every registered media stream and stops the tracks of each (of each
\* whose release action does not fail), leaves every scanner and timeout entry
\* registered, no scanner reset and no timeout cleared, and returns the number of
\* streams it released.
C14_HiddenPageReleasesOnlyStreams ==
  (manager.op = "pageHidden"
     \/ (manager.op = "cleanupByType" /\ manager.arg = "mediaStream")) =>
    LET before == manager.before
        streams == EntriesOfType(before.resources, "mediaStream")
    IN  /\ EntriesOfType(resources, "mediaStream") = {}
        /\ \A id \in streams \ manager.failed :
             before.resources[id].resource \notin liveStreams
        /\ \A id \in DOMAIN before.resources \ streams :
             id \in DOMAIN resources /\ resources[id] = before.resources[id]
        /\ manager.resets = before.resets
        /\ manager.pending = before.pending
        /\ manager.count = Cardinality(streams)

\* the page becomes hidden with two live streams, a scanner and a pending timeout
C14_Witness ==
  /\ manager.op = "pageHidden"
  /\ manager.count = 2
  /\ Cardinality(manager.before.live) = 2
  /\ liveStreams = {}
  /\ EntriesOfType(resources, "scanner") # {}
  /\ EntriesOfType(resources, "timeout") # {}
  /\ manager.pending # {} /\ manager.resets = {}

(***************************************************************************)
(* CameraService under arbitrary clients                                   *)
(***************************************************************************)
SpecCamera == InitOrchestrator /\ [][NextCamera]_vars

\* C15: at most one camera stream acquired through CameraService is live (acquired and
\* not yet stopped) at any time, whatever the interleaving of startCamera() and
\* stopCamera() calls, a startCamera() waiting for the device included.
C15_AtMostOneLiveStream == Cardinality(liveStreams) <= 1

(***************************************************************************)
(* The orchestrator through the page's lifecycle events, which count among *)
(* the user's commands                                                     *)
(***************************************************************************)
\* visibilitychange with document.hidden: the handler of useBarcodeDetection stops the
\* scanning, the handler of useCamera stops the camera if its state is active, and the
\* handler of the ResourceManager, once installed, cleans up every media stream
DocumentHidden ==
  /\ NoContinuationPending
  /\ MayCommand
  /\ LET stops == camera.isActive
         afterStop == [Managed EXCEPT
                         !.resources = IF stops THEN ServiceStopResources ELSE @,
                         !.live = IF stops THEN ServiceStopLive ELSE @]
         r == IF manager.isCleanupScheduled
                THEN cleanupByType(afterStop, "mediaStream", {})
                ELSE [st |-> afterStop, count |-> 0, threw |-> FALSE]
     IN  /\ scan' = stopContinuousScanning(scan)
         /\ camera' = IF stops
                        THEN [camera EXCEPT !.stream = 0, !.isActive = FALSE,
                                            !.isLoading = FALSE, !.error = "",
                                            !.streamRef = 0]
                        ELSE camera
         /\ activeStreamId' = IF stops THEN "" ELSE activeStreamId
         /\ resources' = r.st.resources
         /\ liveStreams' = r.st.live
         /\ manager' = ManagerAfter("pageHidden", "mediaStream", r.st, FALSE, r.count,
                                    r.threw, {}, FALSE)
  /\ capture' = Commanded(capture)
  /\ UNCHANGED <<serviceStarts, modal, localStorage, boundary>>
  /\ UNCHANGED lookupVars

\* freeze, or a beforeunload after which the page stays: handleFreeze and
\* handleBeforeUnload of the ResourceManager clean up everything; the hooks have no
\* handler for these events
PageFrozen ==
  /\ NoContinuationPending
  /\ MayCommand
  /\ manager.isCleanupScheduled
  /\ LET r == cleanupAll(Managed, {})
     IN  /\ scan' = IF EntriesOfType(resources, "scanner") # {} THEN ReaderReset(scan)
                    ELSE scan
         /\ resources' = r.st.resources
         /\ liveStreams' = r.st.live
         /\ manager' = ManagerAfter("pageFrozen", "", r.st, FALSE, r.count, r.threw,
                                    {}, FALSE)
  /\ capture' = Commanded(capture)
  /\ UNCHANGED <<camera, activeStreamId, serviceStarts, modal, localStorage, boundary>>
  /\ UNCHANGED lookupVars

NextLifecycle ==
  \/ NextCapture
  \/ DocumentHidden
  \/ PageFrozen

SpecLifecycle == InitOrchestrator /\ [][NextLifecycle]_vars

EntriesOfStream(s) ==
  {id \in DOMAIN resources : resources[id].type = "mediaStream" /\ resources[id].resource = s}

\* C16: at all times every live camera stream has exactly one entry in the
\* ResourceManager, the decode engine the detector holds has its entry, and no hook
\* refers to a stream that has been released (its tracks stopped, its entry removed),
\* the page's lifecycle events included.
C16_InUseMeansRegistered ==
  /\ \A s \in liveStreams : Cardinality(EntriesOfStream(s)) = 1
  /\ scan.readerRef =>
       ScannerId \in DOMAIN resources /\ resources[ScannerId].type = "scanner"
  /\ \A s \in {camera.stream, camera.streamRef} \ {0} :
       s \in liveStreams /\ EntriesOfStream(s) # {}

(***************************************************************************)
(* Properties of the camera failures                                       *)
(***************************************************************************)
\* C17: when the attempt with the minimal constraints fails after the one with the
\* optimal constraints, startCamera fails with a CameraError of one of the six kinds,
\* whatever the platform's error was; for a permission denial the error is the
\* permission-denied kind with fallbackAvailable = true, and the orchestrator is
\* inactive and shows the mode selection with the error's message.
C17_CameraFailureIsClassified ==
  [][MinimalConstraintsFail =>
       /\ camera'.error \in CameraErrorKinds
       /\ camera'.op = NoOp /\ ~camera'.isActive /\ camera'.stream = 0
       /\ \E name \in CameraErrorNames :
            /\ capture'.error = createCameraError(name).message
            /\ camera'.error = createCameraError(name).name
            /\ capture'.showModeSelection = createCameraError(name).fallbackAvailable
       /\ camera'.error = "NotAllowedError" =>
            /\ FallbackAvailable(camera'.error)
            /\ camera'.hasPermission = "false"
            /\ ~capture'.isActive
            /\ capture'.showModeSelection
            /\ capture'.error = CameraErrorMessage("NotAllowedError")]_vars

\* both attempts have failed, the second with a permission denial
C17_Witness ==
  /\ camera.error = "NotAllowedError"
  /\ camera.op = NoOp /\ ~camera.isStartingRef
  /\ ~capture.isActive /\ capture.showModeSelection
  /\ capture.error = CameraErrorMessage("NotAllowedError")

(***************************************************************************)
(* What CameraInterface offers the user                                    *)
(***************************************************************************)
\* the controls CameraInterface renders that start a recovery: the loading view has
\* none; the error view has the upload and the retry when the error has a fallback;
\* the camera view has the restart button and, with the mode selection, its buttons
RecoveryActions ==
  IF camera.isLoading THEN {}
  ELSE IF camera.error # ""
    THEN IF FallbackAvailable(camera.error) THEN {"fileUpload", "retryCapture"} ELSE {}
  ELSE {"retryCapture"}
         \cup (IF capture.showModeSelection
                 THEN {"nutrition-label", "ai-analysis", "manual"}
                 ELSE {})

\* a failure the flow has ended in: a camera error, a capture error, a failed lookup,
\* or an auto-detection that ended without a result
FailureState ==
  /\ ~camera.isLoading
  /\ \/ camera.error # ""
     \/ capture.error # ""
     \/ (capture.lookupResult # NoResult /\ ~capture.lookupResult.success)
     \/ (capture.autoDetectionComplete /\ capture.lookupResult = NoResult)

\* C18: every failure state the capture flow can reach (each kind of camera error, the
\* auto-detection timeout, a failed lookup) leaves the user at least one recovery
\* action: retry, a manual capture mode, file upload or manual entry.
C18_NoFailureIsADeadEnd == FailureState => RecoveryActions # {}

(***************************************************************************)
(* assessProductQuality on arbitrary products, beside the lookups          *)
(***************************************************************************)
\* a client has the product assessed: what the call returns is kept, with the sizes
\* of the cache and of the in-flight map at the call
ClientAssesses ==
  /\ NoContinuationPending
  /\ assessed' = [assessed EXCEPT !.results = @ \cup
                    {[quality |-> assessProductQuality(assessed.product),
                      cached |-> Cardinality(DOMAIN cache),
                      inFlight |-> Cardinality(DOMAIN requestQueue)]}]
  /\ UNCHANGED <<now, ticks, cache, requestQueue, requests, calls, lastOk, vInput>>
  /\ UNCHANGED hookVars

ClientCallsQuality == ClientCallsFrom(PoolCache, {DefaultOptions})

NextQuality ==
  \/ ClientAssesses
  \/ ClientCallsQuality
  \/ NetworkAnswers
  \/ ClientReturns

InitQuality ==
  /\ InitLookup
  /\ vInput = ""
  /\ assessed \in {[product |-> p, results |-> {}] : p \in QualityProducts \cup TestCaseProducts}
  /\ InitHooks
  /\ scan = InitScan(CaptureMaxScanAttempts, 0)

SpecQuality == InitQuality /\ [][NextQuality]_vars

(***************************************************************************)
(* Properties of assessProductQuality                                      *)
(***************************************************************************)
Points(present, points) == IF present THEN points ELSE 0

FieldsWhere(product, Test(_)) ==
  Cardinality({i \in 1..5 : Test(NutritionFields(product.nutrition)[i])})

IsPositive(value) == value > 0
IsNonzero(value) == value # 0

\* the score by the rule of the code: the name counts when longer than 3 characters,
\* a nutrition field when greater than 0
ScoreByLength(product) ==
  Points(Len(product.name) > 3, 20) + Points(product.brand # "", 15)
    + 8 * FieldsWhere(product, IsPositive)
    + Points(product.imageUrl # "", 10) + Points(product.verified, 15)

\* the score by presence alone: any name, any nonzero nutrition field
ScoreByPresence(product) ==
  Points(product.name # "", 20) + Points(product.brand # "", 15)
    + 8 * FieldsWhere(product, IsNonzero)
    + Points(product.imageUrl # "", 10) + Points(product.verified, 15)

LevelMatches(quality) ==
  /\ quality.score \in 0..100
  /\ quality.level = "high" <=> quality.score >= 80
  /\ quality.level = "medium" <=> (quality.score >= 60 /\ quality.score < 80)
  /\ quality.level = "low" <=> quality.score < 60

\* C19 (as amended): assessProductQuality(product) returns score = 20 if the name has
\* more than 3 characters + 15 if the brand is present + 8 for each of the five
\* nutrition fields that is greater than 0 + 10 if an image is present + 15 if
\* verified, always within 0..100, with level 'high' iff score >= 80, 'medium' iff
\* 60 <= score < 80 and 'low' otherwise; a product with a name of more than 3
\* characters and every other field present and positive scores 100, level 'high'.
C19_QualityScore ==
  \A quality \in {r.quality : r \in assessed.results} :
    /\ quality.score = ScoreByLength(assessed.product)
    /\ LevelMatches(quality)
    /\ (/\ Len(assessed.product.name) > 3
        /\ assessed.product.brand # ""
        /\ FieldsWhere(assessed.product, IsPositive) = 5
        /\ assessed.product.imageUrl # ""
        /\ assessed.product.verified) =>
         quality.score = 100 /\ quality.level = "high"

\* a product with a three-letter name and everything else has been assessed: 80, high
C19_Witness ==
  /\ assessed.product.name = "Tea"
  /\ assessed.product.brand # "" /\ assessed.product.imageUrl # ""
  /\ assessed.product.verified
  /\ FieldsWhere(assessed.product, IsPositive) = 5
  /\ \E r \in assessed.results : r.quality.score = 80 /\ r.quality.level = "high"

\* C19 as stated: 20 points for a name that is present, 8 for each nonzero field,
\* and 100 for a product with every field present
C19_AsStated ==
  \A quality \in {r.quality : r \in assessed.results} :
    /\ quality.score = ScoreByPresence(assessed.product)
    /\ LevelMatches(quality)
    /\ (/\ assessed.product.name # ""
        /\ assessed.product.brand # ""
        /\ FieldsWhere(assessed.product, IsNonzero) = 5
        /\ assessed.product.imageUrl # ""
        /\ assessed.product.verified) =>
         quality.score = 100 /\ quality.level = "high"

\* the products that p becomes when one more of its name, brand, nutrition fields,
\* image and verified flag becomes present, the rest unchanged
WithOneMorePresent(p) ==
  LET n == p.nutrition
  IN  (IF p.name = "" THEN {[p EXCEPT !.name = x] : x \in QualityNames \ {""}} ELSE {})
      \cup (IF p.brand = "" THEN {[p EXCEPT !.brand = "Coca-Cola"]} ELSE {})
      \cup (IF n.calories = 0
              THEN {[p EXCEPT !.nutrition.calories = x] : x \in {-1, 5}} ELSE {})
      \cup (IF n.carbs = 0 THEN {[p EXCEPT !.nutrition.carbs = 5]} ELSE {})
      \cup (IF n.fat = 0 THEN {[p EXCEPT !.nutrition.fat = 5]} ELSE {})
      \cup (IF n.protein = 0 THEN {[p EXCEPT !.nutrition.protein = 5]} ELSE {})
      \cup (IF n.fiber = 0 THEN {[p EXCEPT !.nutrition.fiber = 5]} ELSE {})
      \cup (IF p.imageUrl = "" THEN {[p EXCEPT !.imageUrl = "https://img/cola.jpg"]} ELSE {})
      \cup (IF ~p.verified THEN {[p EXCEPT !.verified = TRUE]} ELSE {})

BandOf(k) ==
  CASE k = "high_quality" -> "high"
    [] k = "medium_quality" -> "medium"
    [] k = "low_quality" -> "low"

\* C21: for each entry of QUALITY_TEST_CASES (high_quality, medium_quality,
\* low_quality), assessProductQuality applied to the entry's product returns the
\* entry's expectedScore (100, 70, 20) and the level of the entry's band.
C21_TestCasesScoreAsExpected ==
  \A k \in TestCaseNames :
    assessed.product = QUALITY_TEST_CASES[k].product =>
      \A r \in assessed.results :
        /\ r.quality.score = QUALITY_TEST_CASES[k].expectedScore
        /\ r.quality.level = BandOf(k)

\* what the code does hold for the test cases: 76 medium, 51 low, 20 low
C21_ScoresOfTheCode ==
  \A r \in assessed.results :
    /\ assessed.product = QUALITY_TEST_CASES.high_quality.product =>
         r.quality.score = 76 /\ r.quality.level = "medium"
    /\ assessed.product = QUALITY_TEST_CASES.medium_quality.product =>
         r.quality.score = 51 /\ r.quality.level = "low"
    /\ assessed.product = QUALITY_TEST_CASES.low_quality.product =>
         r.quality.score = 20 /\ r.quality.level = "low"

(***************************************************************************)
(* requireHighQuality                                                      *)
(***************************************************************************)
\* C22: a lookupByBarcode call made with requireHighQuality = true never returns
\* success with a product of quality level 'low', however it obtains its result
\* (network lookup, cache hit, or joining a request in flight).
C22_HighQualityCallNeverGetsLowQuality ==
  \A c \in Calls :
    (calls[c].state = "done" /\ calls[c].opts.requireHighQuality /\ calls[c].result.success)
      => calls[c].result.product.quality.level # "low"

\* the part that the code does hold: the call that started the request itself
C22_CreatorNeverGetsLowQuality ==
  \A c \in Calls :
    (/\ calls[c].state = "done" /\ calls[c].role = "creator"
     /\ calls[c].opts.requireHighQuality /\ calls[c].result.success)
      => calls[c].result.product.quality.level # "low"

\* a call with requireHighQuality = true served a 'low' product from the cache
C22_LowFromCache ==
  \E c \in Calls :
    /\ calls[c].state = "done" /\ calls[c].role = "cachehit"
    /\ calls[c].opts.requireHighQuality /\ calls[c].result.success
    /\ calls[c].result.product.quality.level = "low"

\* a call with requireHighQuality = true served a 'low' product by a request it joined
C22_LowFromJoinedRequest ==
  \E c \in Calls :
    /\ calls[c].state = "done" /\ calls[c].role = "joiner"
    /\ calls[c].opts.requireHighQuality /\ calls[c].result.success
    /\ calls[c].result.product.quality.level = "low"

(***************************************************************************)
(* The meal modal and the meal storage alone                               *)
(***************************************************************************)
SpecMeal == InitOrchestrator /\ [][NextMeal]_vars

\* the integer nearest to n / d, whichever way a half goes
IsNearest(k, n, d) == 2 * (d * k - n) \in (0 - d)..d

SpecExampleNutrition ==
  [calories |-> 100, carbs |-> 200, fat |-> 50, protein |-> 80, fiber |-> 30]
SpecExampleTotals ==
  [calories |-> 250, carbs |-> 500, fat |-> 125, protein |-> 200, fiber |-> 75]

LastEntry(meal) == meal.entries[Len(meal.entries)]

\* C23: the totals handed to the meal sink are the per-100g nutrition multiplied by
\* the servings, the calories rounded to an integer and the other fields to one
\* decimal; the servings are always a multiple of 0.5 and at least 0.5; for
\* {100, 20, 5, 8, 3} and 2.5 servings the totals are exactly {250, 50, 12.5, 20, 7.5};
\* and the entry the sink builds and stores carries these totals unchanged (the
\* stored item is looked at unless it has been overwritten from outside since).
C23_TotalsAreScaledOnce ==
  /\ modal.servings % 2 = 0 /\ modal.servings >= 2
  /\ modal.handoff # NoHandoff =>
       LET per100g == modal.handoff.product.nutrition
           servings == modal.handoff.servings
           totals == modal.handoff.totalNutrition
       IN  /\ servings % 2 = 0 /\ servings >= 2
           /\ IsNearest(totals.calories, per100g.calories * servings, 4)
           /\ \A f \in Nutrients : IsNearest(totals[f], per100g[f] * servings, 4)
           /\ (per100g = SpecExampleNutrition /\ servings = 10) => totals = SpecExampleTotals
           /\ modal.result.success =>
                /\ LastEntry(modal.result.meal).nutrition = totals
                /\ LastEntry(modal.result.meal).servings = servings
                /\ (~modal.result.io.setItemThrows /\ localStorage.kind = "array") =>
                     \E i \in 1..Len(localStorage.meals) :
                       /\ localStorage.meals[i] = modal.result.meal
                       /\ LastEntry(localStorage.meals[i]).nutrition = totals

\* the example of the specification has been handed over, added and stored
C23_Witness ==
  /\ modal.handoff # NoHandoff
  /\ modal.handoff.product.nutrition = SpecExampleNutrition
  /\ modal.handoff.servings = 10
  /\ modal.handoff.totalNutrition = SpecExampleTotals
  /\ modal.result.success /\ ~modal.result.io.setItemThrows
  /\ localStorage.kind = "array"

\* 0.7 g of protein in 1.5 servings: 1.05 g, handed over as 1.0 g
C23_HalfRoundedDown ==
  /\ modal.handoff # NoHandoff
  /\ modal.handoff.product.nutrition.protein = 7
  /\ modal.handoff.servings = 6
  /\ modal.handoff.totalNutrition.protein = 10

\* C24: addFoodToMeal never throws: an exception raised while the persisted meal
\* data is read or written is surfaced as {success: false, error: message}, and
\* success: true is returned only when the entry was persisted.
C24_StorageFailuresAreSurfaced ==
  modal.result # NoMealResult =>
    /\ (modal.result.io.getItemThrows \/ modal.result.io.setItemThrows) =>
         (~modal.result.success /\ modal.result.error # "")
    /\ modal.result.success => ~modal.result.io.setItemThrows

\* what the code does hold: the only failure returned is the TypeError of a stored
\* item that is no array, and it leaves the item alone
C24_OnlyMalformedItemFails ==
  (modal.result # NoMealResult /\ ~modal.result.success) =>
    /\ modal.result.error = "meals.find is not a function"
    /\ modal.result.meal = NoMeal
    /\ ~modal.result.io.getItemThrows

\* setItem threw, nothing was stored, and addFoodToMeal returned success
C24_SuccessWithoutPersisting ==
  /\ modal.result # NoMealResult
  /\ modal.result.success /\ modal.result.io.setItemThrows
  /\ localStorage = NoItem

\* the failure branch of addFoodToMeal has been taken
C24_FailureReturned ==
  modal.result # NoMealResult /\ ~modal.result.success

(***************************************************************************)
(* The in-flight request map                                               *)
(***************************************************************************)
getCacheStats ==
  [size |-> Cardinality(DOMAIN cache), maxAge |-> cacheMaxAge,
   activeRequests |-> Cardinality(DOMAIN requestQueue)]

\* C25: the in-flight request map holds at most one request per barcode, holds an
\* entry for barcode B exactly while a lookup of B started by lookupByBarcode is
\* unresolved, and is empty once every lookup has settled, whether it succeeded,
\* failed or exhausted its retries.
C25_InFlightMapTracksUnresolvedLookups ==
  /\ \A r, s \in ActiveRequests : requests[r].barcode = requests[s].barcode => r = s
  /\ \A b \in DOMAIN requestQueue :
       requestQueue[b] \in ActiveRequests /\ requests[requestQueue[b]].barcode = b
  /\ \A r \in ActiveRequests :
       requests[r].barcode \in DOMAIN requestQueue /\ requestQueue[requests[r].barcode] = r
  /\ getCacheStats.activeRequests = Cardinality(ActiveRequests)
  /\ ActiveRequests = {} => requestQueue = << >>
  /\ \A c \in Calls : (calls[c].state = "done" /\ calls[c].role \in {"creator", "joiner"}) =>
       calls[c].req \notin ActiveRequests

\* a lookup has exhausted its retries, another has failed as not found, and the map
\* is empty
C25_Witness ==
  /\ \E c \in Calls : ExhaustedCall(c) /\ calls[c].attempts > 1
  /\ requestQueue = << >>
  /\ ActiveRequests = {}

\* two lookups of different barcodes are in flight, one of them waiting to retry
C25_TwoInFlight ==
  /\ Cardinality(DOMAIN requestQueue) = 2
  /\ \E r \in ActiveRequests : requests[r].state = "backoff"

(***************************************************************************)
(* Auto-detection after the camera has started                             *)
(***************************************************************************)
ScanRunning(sc) ==
  /\ sc.continuousScanRef
  /\ \E i \in Loops : sc.loops[i].phase \in {"decoding", "sleeping"}

TimeoutArmed(cap) ==
  /\ cap.autoDetectionTimeoutRef # 0
  /\ cap.timers[cap.autoDetectionTimeoutRef].pending

\* C26: when the camera acquisition of a startCapture() succeeds (the capture still
\* active and in barcode mode), the orchestrator enters auto-detection: continuous
\* scanning is started on the video source and the auto-detection timeout is armed.
C26_CameraSuccessStartsAutoDetection ==
  [][(CameraConfigured /\ capture.isActive /\ capture.mode = "barcode") =>
       (ScanRunning(scan') /\ TimeoutArmed(capture'))]_vars

\* the camera has started for a capture that is active, and nothing scans, no
\* timeout is pending, and no mode selection is shown
C26_CameraActiveAndNothingRuns ==
  /\ camera.isActive /\ capture.isActive /\ capture.mode = "barcode"
  /\ capture.commands = 1
  /\ ~ScanRunning(scan)
  /\ \A i \in AutoTimers : ~capture.timers[i].pending
  /\ ~capture.showModeSelection /\ capture.lookupResult = NoResult

\* what the code does hold: the camera success of a capture that already has its
\* video element starts the scanning and arms the timeout
C26_WithVideoElement ==
  [][(CameraConfigured /\ capture.videoRef) =>
       (ScanRunning(scan') /\ TimeoutArmed(capture'))]_vars

(***************************************************************************)
(* One scan loop at a time                                                 *)
(***************************************************************************)
\* the continuousScan closures with a decode attempt in progress or scheduled
RunningLoops(sc) == {i \in Loops : sc.loops[i].phase \in {"decoding", "sleeping"}}

\* C27: at any time at most one continuous-scan decode attempt is in progress or
\* scheduled, also when startContinuousScanning is called again while a loop is
\* running (retryCapture with an active camera, switchMode back to barcode).
C27_AtMostOneScanLoop == Cardinality(RunningLoops(scan)) <= 1

\* two loops run, and the timer of one of them is no longer in scanTimeoutRef:
\* stopContinuousScanning cannot clear it
C27_TimerOutOfReach ==
  /\ Cardinality(RunningLoops(scan)) = 2
  /\ \E i \in Loops : scan.loops[i].phase = "sleeping" /\ scan.scanTimeoutRef # i

(***************************************************************************)
(* One detection per scanning session                                      *)
(***************************************************************************)
\* A scanning session runs from a startContinuousScanning to the next
\* stopContinuousScanning: while continuousScanRef is true.
\* C28: within one continuous-scanning session onDetected fires at most once: a
\* detection belongs to a running session and ends it (the loop is stopped and no
\* further attempt is scheduled), so that a session that has been stopped, by its
\* own detection or otherwise, produces no detection event and no product lookup.
C28_OneDetectionPerSession ==
  [][\A i \in Loops, text \in DetectTexts :
       (NoContinuationPending /\ HasIdleCall /\ DetectedBy(i, text)) =>
         /\ scan.continuousScanRef
         /\ ~scan'.continuousScanRef
         /\ scan'.loops[i] = NoLoop
         /\ \A j \in Loops : scan'.loops[j].phase # "sleeping"]_vars

\* what the code does hold, for the decodes that reader.reset() has not been called
\* on: the detection belongs to a running session, ends it and ends its own loop
C28_UnlessResetDecodeSettles ==
  [][\A i \in Loops, text \in DetectTexts :
       (NoContinuationPending /\ HasIdleCall /\ DetectedBy(i, text) /\ ~scan.loops[i].reset) =>
         /\ scan.continuousScanRef
         /\ ~scan'.continuousScanRef
         /\ scan'.loops[i] = NoLoop]_vars

(***************************************************************************)
(* Switching the mode                                                      *)
(***************************************************************************)
\* no attempt is scheduled, and reader.reset() has been called on every decode in
\* progress
ScanStopped(sc) ==
  /\ ~sc.continuousScanRef
  /\ \A i \in Loops : sc.loops[i].phase # "sleeping"
  /\ \A i \in Loops : sc.loops[i].phase = "decoding" => sc.loops[i].reset

StartsNoScan == RunningLoops(scan') \subseteq RunningLoops(scan)
StartsNoLookup == \A c \in Calls : calls[c].state = "idle" => calls'[c].state = "idle"

\* C29, first part: switchMode to a non-barcode mode leaves no scan attempt
\* scheduled or running unstopped.
C29_SwitchStopsTheLoop ==
  [][(UserSwitchesMode /\ capture'.mode # "barcode") => ScanStopped(scan')]_vars

\* C29, second part: while the mode is not barcode, nothing but a command of the
\* user starts a scan attempt or a barcode lookup.
C29_NothingStartsInOtherMode ==
  [][(capture.mode # "barcode" /\ capture'.commands = capture.commands) =>
       (StartsNoScan /\ StartsNoLookup)]_vars

\* C29: switchMode(m) stops the running detection loop before the new mode starts;
\* after a switch to a non-barcode mode no scan attempt is running or scheduled and
\* no barcode lookup is started until the user returns to barcode mode.
C29_ModeSwitchStopsDetection ==
  [][/\ (UserSwitchesMode /\ capture'.mode # "barcode") => ScanStopped(scan')
     /\ (capture.mode # "barcode" /\ capture'.commands = capture.commands) =>
          (StartsNoScan /\ StartsNoLookup)]_vars

\* a detection by a decode that was never reset leaves the attempt of another loop
\* scheduled
C28_AttemptStillScheduled ==
  [][\A i \in Loops, text \in DetectTexts :
       (NoContinuationPending /\ HasIdleCall /\ DetectedBy(i, text) /\ ~scan.loops[i].reset) =>
         \A j \in Loops : scan'.loops[j].phase # "sleeping"]_vars

(***************************************************************************)
(* retryCapture                                                            *)
(***************************************************************************)
\* lookupResult, error, the processing flag and the scan count are cleared
RetryCleared(cap, sc) ==
  /\ cap.lookupResult = NoResult
  /\ cap.error = ""
  /\ ~cap.isProcessing
  /\ sc.scanCount = 0

\* no stop and no re-acquisition of the camera stream
StreamUntouched ==
  /\ camera' = camera
  /\ activeStreamId' = activeStreamId
  /\ liveStreams' = liveStreams

\* a full startCapture(): the capture is active and, unless a start is already under
\* way, the camera is being started
FullStartCapture ==
  /\ capture'.isActive
  /\ camera'.isStartingRef
  /\ camera'.op.phase # "none"

C30_RetryClearsThePriorResult ==
  [][UserRetriesCapture => RetryCleared(capture', scan')]_vars

C30_ActiveCameraRestartsDetection ==
  [][(UserRetriesCapture /\ camera.isActive) =>
       (StreamUntouched /\ ScanRunning(scan') /\ TimeoutArmed(capture'))]_vars

C30_ActiveCameraStreamUntouched ==
  [][(UserRetriesCapture /\ camera.isActive) => StreamUntouched]_vars

C30_InactiveCameraStartsCapture ==
  [][(UserRetriesCapture /\ ~camera.isActive) => FullStartCapture]_vars

\* C30: retryCapture() clears the prior result (lookupResult, error, the processing
\* flag, the scan count); with the camera active it restarts auto-detection (scanning
\* runs, the timeout is armed) and leaves the camera stream as it is; with the camera
\* not active it performs a full startCapture().
C30_RetryCapture ==
  [][UserRetriesCapture =>
       /\ RetryCleared(capture', scan')
       /\ IF camera.isActive
            THEN StreamUntouched /\ ScanRunning(scan') /\ TimeoutArmed(capture')
            ELSE FullStartCapture]_vars

\* with the camera active and the video element set, retryCapture() restarts
\* auto-detection and leaves the stream as it is
C30_WithVideoElement ==
  [][(UserRetriesCapture /\ camera.isActive /\ capture.videoRef) =>
       (StreamUntouched /\ ScanRunning(scan') /\ TimeoutArmed(capture'))]_vars

(***************************************************************************)
(* The single decode attempt                                               *)
(***************************************************************************)
\* the detector with the timers it sets itself firing; nothing in detectBarcodeOnce
\* uses timeoutMs, so when decodeOnceFromVideoDevice settles is left to the library
SpecScanLive == InitDetector /\ [][NextScan]_vars /\ WF_vars(NextScanTimerFires)

Decoding(i) == scan.loops[i].phase = "decoding"

\* C31: each single decode attempt completes: a decode in progress comes to an end
\* (with a code, with "not found" or with an error) without any help of the client.
C31_DecodeAttemptCompletes == \A i \in Loops : Decoding(i) ~> ~Decoding(i)

\* "not found" is a normal outcome: detectBarcodeOnce returns null, no error is set,
\* and the loop of a running scan schedules its next attempt
C31_NotFoundIsNoError ==
  [][\A i \in Loops :
       (Decoding(i) /\ scan' = ScanAfterRejected(scan, i, "")) =>
          /\ scan'.error = scan.error
          /\ scan'.result = scan.result
          /\ (scan.continuousScanRef =>
                (scan'.loops[i].phase = "sleeping" /\ scan'.scanTimeoutRef = i))]_vars

(***************************************************************************)
(* Detection and the camera stream                                         *)
(***************************************************************************)
\* a decode attempt the detector has begun and not given up by reader.reset()
DecodeInProgress(sc) ==
  \E i \in Loops : sc.loops[i].phase = "decoding" /\ ~sc.loops[i].reset

\* C32: barcode detection never runs without an active camera stream: whenever a scan
\* loop is running or a decode attempt is in progress, the camera of the same
\* orchestrator is active, for every order of startCapture, stopCapture, switchMode,
\* retryCapture and page-hidden events.
C32_DetectionNeedsActiveCamera ==
  (ScanRunning(scan) \/ DecodeInProgress(scan)) => (camera.isActive /\ camera.stream # 0)

(***************************************************************************)
(* The capture page: "Scan Another"                                        *)
(***************************************************************************)
\* the button of the nutrition card, which is shown while captureResult?.success:
\* onScanAnother is resetCapture, which sets state of the page and calls nothing of
\* the capture hook that CameraInterface holds
UserScansAnother ==
  /\ NoContinuationPending
  /\ modal.captureResult
  /\ modal' = resetCapture(modal)
  /\ UNCHANGED <<scan, camera, capture, activeStreamId, resources, liveStreams, manager,
                 serviceStarts, localStorage, boundary>>
  /\ UNCHANGED lookupVars

NextPage ==
  \/ NextCapture
  \/ UserScansAnother

SpecPage == InitOrchestrator /\ [][NextPage]_vars

\* C33: from the result-ready state, the user's "scan another" returns the capture
\* flow to auto-detection: the previous result is cleared, continuous scanning runs
\* again and the auto-detection timeout is armed again.
C33_ScanAnotherRestartsAutoDetection ==
  [][UserScansAnother =>
       /\ ~modal'.captureResult
       /\ capture'.lookupResult = NoResult
       /\ ScanRunning(scan')
       /\ TimeoutArmed(capture')]_vars

\* what "scan another" does clear: the result, the pending product and the modal of
\* the page
C33_ScanAnotherClearsThePage ==
  [][UserScansAnother =>
       /\ ~modal'.captureResult
       /\ ~modal'.showMealModal
       /\ modal'.pendingProduct = NoProduct]_vars

\* after "scan another" the hook still holds its result and nothing scans, until the
\* user does something else
C33_ScanAnotherLeavesTheHook ==
  [][UserScansAnother => (capture' = capture /\ scan' = scan)]_vars

(***************************************************************************)
(* Scanning and the hidden page                                            *)
(***************************************************************************)
\* a step that calls startContinuousScanning: startAutoDetection (on camera success
\* and in retryCapture) and switchMode('barcode')
CallsStartContinuousScanning ==
  \/ CameraConfigured
  \/ UserRetriesCapture
  \/ UserSwitchesMode

\* a decode attempt begins in this step
AttemptBegins ==
  \E i \in Loops : scan.loops[i].phase # "decoding" /\ scan'.loops[i].phase = "decoding"

C34_HiddenStopsScanning == [][DocumentHidden => ScanStopped(scan')]_vars

\* once stopped, scanning makes no attempt until startContinuousScanning is called
C34_NoResumeWithoutStart ==
  [][(~scan.continuousScanRef /\ (AttemptBegins \/ scan'.continuousScanRef)) =>
       CallsStartContinuousScanning]_vars

\* the same as C34_HiddenStopsScanning when the timer of every scheduled attempt is
\* the one scanTimeoutRef holds
C34_HiddenStopsTheHeldTimer ==
  [][(DocumentHidden /\ \A i \in Loops :
                          scan.loops[i].phase = "sleeping" => scan.scanTimeoutRef = i) =>
       ScanStopped(scan')]_vars

\* C34: when the page becomes hidden, continuous scanning stops (no attempt is
\* scheduled, the decode engine is reset), and it stays stopped, the page becoming
\* visible again included, until startContinuousScanning is called explicitly.
C34_PageHiddenStopsScanning ==
  [][/\ DocumentHidden => ScanStopped(scan')
     /\ (~scan.continuousScanRef /\ (AttemptBegins \/ scan'.continuousScanRef)) =>
          CallsStartContinuousScanning]_vars

(***************************************************************************)
(* CameraErrorBoundary under any props, children and user                  *)
(***************************************************************************)
InitErrorBoundary ==
  /\ InitLookup
  /\ vInput = ""
  /\ assessed = NoAssessment
  /\ InitPage
  /\ scan = InitScan(CaptureMaxScanAttempts, 0)
  /\ \E props \in BoundaryProps : boundary = InitBoundary(props)

SpecBoundary == InitErrorBoundary /\ [][NextBoundary]_vars

\* what setState of the boundary can change
BoundaryState(b) == <<b.hasError, b.error, b.errorInfo, b.retryCount>>

\* C35: CameraErrorBoundary allows at most maxRetries (default 3) retries: retryCount
\* never exceeds maxRetries, a retry requested at the limit changes nothing, and once
\* the limit is reached the fallback still offers file upload and manual entry.
C35_AtMostMaxRetries ==
  [][/\ boundary'.retryCount <= maxRetries(boundary')
     /\ (~boundary.props.given) => maxRetries(boundary') = 3
     /\ (UserRetriesAfterError /\ boundary.retryCount >= maxRetries(boundary)) =>
          BoundaryState(boundary') = BoundaryState(boundary)
     /\ (boundary'.hasError /\ ~canRetry(boundary')) =>
          {"upload", "manual"} \subseteq Offers(boundary')]_vars

\* with maxRetries left out, three retries have been made, the children have failed
\* again, and a fourth retry has been requested of the fallback component
C35_Witness ==
  /\ ~boundary.props.given
  /\ boundary.hasError
  /\ boundary.retryCount = 3
  /\ boundary.retryCalls = 4
  /\ boundary.last = "retry"
  /\ "upload" \in Offers(boundary)

\* the default fallback with no retry left and an error that is neither a permission
\* nor a hardware error
C35_WitnessDefaultFallback ==
  /\ ~boundary.props.fallback
  /\ boundary.hasError
  /\ ~canRetry(boundary)
  /\ maxRetries(boundary) > 0
  /\ getErrorType(boundary.error) = "camera"
  /\ Offers(boundary) = {"upload", "manual"}

(***************************************************************************)
(* What is written to the lookup cache                                     *)
(***************************************************************************)
\* the barcodes whose cache entry this step has written
Written == {b \in DOMAIN cache' : b \notin DOMAIN cache \/ cache'[b] # cache[b]}

\* the call c begins in this step
Begins(c) == calls[c].state = "idle" /\ calls'[c].state # "idle"

\* the request r settles in this step, its creator taking the result
Settles(r) == requests[r].state # "none" /\ requests'[r].state = "none"

\* C36: the lookup cache only ever holds successful results: a not-found,
\* quality-too-low, invalid-format or network failure is never written to the cache,
\* an entry is written at most once per underlying request (by the caller that created
\* it, when that request settles), and a lookup made with enableCache=false neither
\* reads nor writes the cache.
C36_CacheHoldsSuccessesOnly ==
  [][/\ \A b \in Written :
          \E r \in Calls :
            /\ Settles(r)
            /\ requests[r].barcode = b
            /\ calls[r].role = "creator"
            /\ calls[r].opts.enableCache
            /\ calls'[r].result.success
            /\ calls'[r].result.product # NoProduct
            /\ cache'[b].product = calls'[r].result.product
     /\ Cardinality(Written) <= 1
     /\ \A c \in Calls :
          (Begins(c) /\ ~calls'[c].opts.enableCache) =>
             (cache' = cache /\ calls'[c].role # "cachehit")
     /\ \A r \in Calls :
          (Settles(r) /\ ~calls[r].opts.enableCache) => cache' = cache]_vars

\* a lookup with enableCache=false has fetched a product whose barcode is in the
\* cache, and the entry is the older one
C36_Witness ==
  \E c \in Calls :
    /\ calls[c].state = "done"
    /\ ~calls[c].opts.enableCache
    /\ calls[c].role = "creator"
    /\ calls[c].result.success
    /\ calls[c].barcode \in DOMAIN cache
    /\ ~calls[c].result.product.cached

\* a failed lookup of a caching caller has left no entry
C36_WitnessFailure ==
  \E c \in Calls :
    /\ calls[c].state = "done"
    /\ calls[c].opts.enableCache
    /\ calls[c].role = "creator"
    /\ ~calls[c].result.success
    /\ calls[c].barcode \notin DOMAIN cache

(***************************************************************************)
(* The network calls of a lookup and its retries                           *)
(***************************************************************************)
\* the lookupBarcode call of a timed-out attempt settles: Promise.race has settled
\* already, what the call resolves with is dropped
LateResponseDropped ==
  /\ NoContinuationPending
  /\ \E r \in Calls :
       /\ requests[r].stale > 0
       /\ requests' = [requests EXCEPT ![r].stale = requests[r].stale - 1]
  /\ UNCHANGED <<now, ticks, cache, requestQueue, calls, lastOk, vInput, assessed>>
  /\ UNCHANGED hookVars

NextRetry ==
  \/ NextLookup
  \/ LateResponseDropped

SpecRetry == InitOrchestrator /\ [][NextRetry]_vars

\* the lookupBarcode calls of the request r that have not settled
PendingFetches(r) == (IF requests[r].state = "net" THEN 1 ELSE 0) + requests[r].stale

\* ... and of all the requests for the barcode b
OutstandingCalls(b) ==
  LET rs == {r \in Calls : requests[r].state # "none" /\ requests[r].barcode = b}
      sum[S \in SUBSET Calls] ==
        IF S = {} THEN 0
        ELSE LET r == CHOOSE x \in S : TRUE IN PendingFetches(r) + sum[S \ {r}]
  IN  sum[rs]

\* C37: at most one underlying network call per barcode is outstanding at any time,
\* also across the retries of one lookup: a retry attempt is never running while the
\* network call of an earlier, timed-out attempt for the same barcode is still pending.
C37_OneNetworkCallPerBarcode == \A b \in PoolLookup : OutstandingCalls(b) <= 1

\* at most one performLookup per barcode is under way
C37_OneRequestPerBarcode ==
  \A r1, r2 \in Calls :
    (r1 # r2 /\ requests[r1].state # "none" /\ requests[r2].state # "none") =>
       requests[r1].barcode # requests[r2].barcode

\* as long as no attempt has timed out, one network call per barcode is outstanding
C37_OneCallBeforeAnyTimeout ==
  (\A r \in Calls : requests[r].attempt = 0 /\ requests[r].stale = 0) =>
     C37_OneNetworkCallPerBarcode

(***************************************************************************)
(* The meal log: addFoodToMeal and removeFoodFromMeal called in any order  *)
(***************************************************************************)
\* removeFoodFromMeal: the value returned and the item of localStorage afterwards.
\* meals.find throws a TypeError when the stored JSON is no array: the catch block.
removeFoodFromMeal(mealId, entryId, store, io) ==
  LET parsed == getAllMeals(store, io.getItemThrows)
      meals == parsed.meals
      found == {i \in 1..Len(meals) : meals[i].id = mealId}
      first == CHOOSE i \in found : \A j \in found : i <= j
      entries == SelectSeq(meals[first].entries, LAMBDA e : e.id # entryId)
      saved == [i \in 1..Len(meals) |->
                  IF i = first
                    THEN [meals[i] EXCEPT !.entries = entries,
                                          !.totalNutrition = calculateMealNutrition(entries)]
                    ELSE meals[i]]
  IN  IF ~parsed.isArray \/ found = {}
        THEN [result |-> FALSE, store |-> store]
        ELSE [result |-> TRUE, store |-> saveMeals(store, saved, io.setItemThrows)]

\* 1 and 1.5 servings
LoggedServings == {4, 6}
MealIds == {<<mealType, Today, stamp>> : mealType \in SelectableMeals, stamp \in 1..MaxLogEntries}
StorageFaults == [getItemThrows : BOOLEAN, setItemThrows : BOOLEAN]
Threw(io) == io.getItemThrows \/ io.setItemThrows

\* the meal of a type that the item of localStorage holds today: its entries and
\* totals, those of an empty meal when there is none
PersistedMeal(store, mealType) ==
  LET found == IF store.kind = "array" THEN MealIndex(store.meals, mealType) ELSE {}
  IN  IF found = {}
        THEN [entries |-> <<>>, totalNutrition |-> calculateMealNutrition(<<>>)]
        ELSE LET meal == store.meals[CHOOSE i \in found : \A j \in found : i <= j]
             IN  [entries |-> meal.entries, totalNutrition |-> meal.totalNutrition]

\* a client adds a food: modal.undo keeps what was persisted for the meal before
ClientAddsFood ==
  \E product \in ModalProducts, mealType \in SelectableMeals, servings \in LoggedServings,
     io \in StorageFaults :
    LET totalNutrition == calculateTotalNutrition(product.nutrition, servings,
                                                  [f \in Nutrients |-> TRUE])
        added == addFoodToMeal(product, mealType, servings, totalNutrition,
                               localStorage, modal.entries + 1, io)
    IN  /\ modal.entries < MaxLogEntries
        /\ MealStep([modal EXCEPT
                       !.result = added.result,
                       !.entries = modal.entries + 1,
                       !.ioFailed = modal.ioFailed \/ Threw(io),
                       !.undo = IF added.result.success
                                  THEN [state |-> "added", type |-> mealType,
                                        mealId |-> added.result.meal.id,
                                        entryId |-> modal.entries + 1,
                                        before |-> PersistedMeal(localStorage, mealType)]
                                  ELSE NoUndo],
                    added.store)

\* a client removes an entry of a meal; the removal of the entry added last, from the
\* meal addFoodToMeal returned, turns modal.undo to "removed" when true is returned
ClientRemovesFood ==
  \E mealId \in MealIds, entryId \in 1..MaxLogEntries, io \in StorageFaults :
    LET removed == removeFoodFromMeal(mealId, entryId, localStorage, io)
        undoes == /\ modal.undo.state = "added"
                  /\ modal.undo.mealId = mealId /\ modal.undo.entryId = entryId
    IN  /\ modal.entries > 0
        /\ MealStep([modal EXCEPT
                       !.ioFailed = modal.ioFailed \/ Threw(io),
                       !.undo = IF undoes /\ removed.result
                                  THEN [modal.undo EXCEPT !.state = "removed"]
                                  ELSE NoUndo],
                    removed.store)

\* the stored item is overwritten from outside with something that is no meal list
StoredItemIsDamaged ==
  \E item \in DamagedItems :
    /\ localStorage # item
    /\ MealStep([modal EXCEPT !.ioFailed = TRUE, !.undo = NoUndo], item)

NextMealLog ==
  \/ ClientAddsFood
  \/ ClientRemovesFood
  \/ StoredItemIsDamaged

SpecMealLog == InitOrchestrator /\ [][NextMealLog]_vars

\* C38: after any sequence of addFoodToMeal and removeFoodFromMeal calls the persisted
\* store holds at most one meal per (meal type, date); each meal's totalNutrition is
\* the field-wise sum of the nutrition of its current entries; and adding an entry
\* and then removing it restores the meal's previous entries and totals.
C38_MealLogIsConsistent ==
  /\ localStorage.kind = "array" =>
       /\ \A i, j \in 1..Len(localStorage.meals) :
            (localStorage.meals[i].type = localStorage.meals[j].type
               /\ localStorage.meals[i].date = localStorage.meals[j].date) => i = j
       /\ \A i \in 1..Len(localStorage.meals) :
            localStorage.meals[i].totalNutrition
              = calculateMealNutrition(localStorage.meals[i].entries)
  /\ modal.undo.state = "removed" =>
       PersistedMeal(localStorage, modal.undo.type) = modal.undo.before

\* what the code does hold, storage failing or not: one meal per (type, date), and
\* totals that are the sums of the entries
C38_OneMealPerTypeWithSummedTotals ==
  localStorage.kind = "array" =>
    /\ \A i, j \in 1..Len(localStorage.meals) :
         (localStorage.meals[i].type = localStorage.meals[j].type
            /\ localStorage.meals[i].date = localStorage.meals[j].date) => i = j
    /\ \A i \in 1..Len(localStorage.meals) :
         localStorage.meals[i].totalNutrition
           = calculateMealNutrition(localStorage.meals[i].entries)

\* and the round trip, as long as localStorage has never thrown nor been damaged
C38_RoundTripWithWorkingStorage ==
  (modal.undo.state = "removed" /\ ~modal.ioFailed) =>
    PersistedMeal(localStorage, modal.undo.type) = modal.undo.before

\* an entry was added to a meal that held one already, and removed again
C38_RoundTripOnStoredMeal ==
  /\ modal.undo.state = "removed" /\ ~modal.ioFailed
  /\ Len(modal.undo.before.entries) > 0

\* removeFoodFromMeal returned true while setItem threw: the entry is still stored
C38_RemovedButStillStored ==
  /\ modal.undo.state = "removed"
  /\ localStorage.kind = "array"
  /\ \E i \in 1..Len(localStorage.meals) :
       \E k \in 1..Len(localStorage.meals[i].entries) :
         localStorage.meals[i].entries[k].id = modal.undo.entryId

(***************************************************************************)
(* useCamera.restartCamera                                                 *)
(***************************************************************************)
\* restartCamera() up to its 100 ms delay: stopCamera() has stopped the service's
\* stream and cleared the camera state. The call keeps the startCamera of the
\* render it was taken from.
UserRestartsCamera ==
  /\ NoContinuationPending
  /\ MayCommand
  /\ camera.restart.phase = "none"
  /\ HookStep(Commanded(capture), scan,
              [camera EXCEPT !.stream = 0, !.isActive = FALSE, !.isLoading = FALSE,
                             !.error = "", !.streamRef = 0,
                             !.restart = [phase |-> "delay", snap |-> Snapshot]],
              "", ServiceStopResources, ServiceStopLive)
  /\ UNCHANGED lookupVars

\* the 100 ms are over: await startCamera(), which returns at once when it is
\* starting already or when its render saw the camera active
RestartDelayElapses ==
  /\ NoContinuationPending
  /\ camera.restart.phase = "delay"
  /\ IF CameraStarts(camera.restart.snap)
       THEN HookStep(capture, scan,
                     [camera EXCEPT !.isStartingRef = TRUE, !.isLoading = TRUE,
                                    !.error = "",
                                    !.op = [phase |-> "optimal", stream |-> 0,
                                            snap |-> camera.restart.snap],
                                    !.restart.phase = "starting"],
                     "", ServiceStopResources, ServiceStopLive)
       ELSE HookStep(capture, scan, [camera EXCEPT !.restart = NoRestart],
                     activeStreamId, resources, liveStreams)
  /\ UNCHANGED lookupVars

NextRestart ==
  \/ NextCapture
  \/ UserRestartsCamera
  \/ RestartDelayElapses

SpecRestart == InitOrchestrator /\ [][NextRestart]_vars

RestartCalledOnActive == camera.restart.phase # "none" /\ camera.restart.snap.camActive
RestartCompletes == camera.restart.phase # "none" /\ camera'.restart.phase = "none"

\* C39: restartCamera() on an active camera stops the current stream and then starts
\* a new one: when it completes, the camera is active again with the stream that
\* start acquired, or in a classified error state; it is never left stopped without
\* an error.
C39_RestartEndsActiveOrInError ==
  [][(RestartCalledOnActive /\ RestartCompletes) =>
       \/ camera'.isActive /\ camera'.stream # 0 /\ camera'.stream = camera.op.stream
       \/ camera'.error \in CameraErrorKinds]_vars

\* what the code does hold: the call stops the stream the camera had
C39_RestartStopsTheStream ==
  [][(camera.restart.phase = "none" /\ camera'.restart.phase = "delay") =>
       /\ camera.stream # 0 => camera.stream \notin liveStreams'
       /\ ~camera'.isActive /\ camera'.stream = 0 /\ camera'.error = ""]_vars

\* and a restart called while the camera was not active goes on to getUserMedia,
\* unless another start is under way, and then ends active or in a classified error
C39_RestartOfInactiveCameraStarts ==
  [][(camera.restart.phase = "delay" /\ ~camera.restart.snap.camActive
        /\ ~camera.isStartingRef /\ camera'.restart.phase # "delay")
       => (camera'.restart.phase = "starting" /\ camera'.op.phase = "optimal")]_vars

C39_StartedRestartEndsActiveOrInError ==
  [][(camera.restart.phase = "starting" /\ camera'.restart.phase = "none") =>
       \/ camera'.isActive /\ camera'.stream # 0 /\ camera'.stream = camera.op.stream
       \/ camera'.error \in CameraErrorKinds]_vars
====
